---- MODULE Spec2Model ----
(***************************************************************************)
(* A model of OmniAgent: the CPI execution engine (src/src/cpi_actions.rs), *)
(* the size parser and the metrics stream (src/src/metrics.rs), the Docker *)
(* bootstrap (src/src/docker.rs), the instance routes                      *)
(* (src/src/routes/instances.rs) and the Docker-availability gate          *)
(* (src/src/main.rs).                                                      *)
(*                                                                         *)
(* Strings are sequences of lexemes: every delimiter character of interest *)
(* ("{", "}", "[", "]", the double quote, the backslash, the blank, the    *)
(* newline, ",", ":") is a lexeme of its own and a run of other characters *)
(* (a word such as "name" or "docker") is one lexeme.  Substring search and *)
(* replacement on these sequences coincide with Rust's str operations on   *)
(* the strings they stand for.                                             *)
(*                                                                         *)
(* A serde_json Value is a record tagged by t: String (s), Number (n),     *)
(* Bool (b), Null, Array (a: a sequence of Values) and Object (m: a map).  *)
(* A serde_json Map is a sequence of <<key, Value>> pairs in the map's     *)
(* iteration order, with pairwise distinct keys.                           *)
(***************************************************************************)
EXTENDS Integers, Sequences, FiniteSets, TLC

(* ------------------------------ bounds -------------------------------- *)

\* most pieces a template of the rendering specification is made of
MaxPieces == 3
\* most post_exec templates of an action in the enumerated configurations
MaxPostExec == 3
\* most containers the Docker daemon creates in a run of the instance routes
MaxCreated == 2
\* most ticks of the metrics stream's interval
MaxTicks == 3

(* --------------------------- string helpers --------------------------- *)

RECURSIVE Concat(_)
\* the concatenation of a sequence of strings
Concat(ss) == IF ss = <<>> THEN <<>> ELSE Head(ss) \o Concat(Tail(ss))

\* whether pat occurs in s at position i (1-based)
MatchAt(s, pat, i) ==
    /\ i + Len(pat) - 1 <= Len(s)
    /\ \A j \in 1..Len(pat) : s[i + j - 1] = pat[j]

RECURSIVE ReplaceFrom(_, _, _, _)
\* str::replace from position i on: the non-overlapping matches of pat,
\* found left to right, are replaced by rep (pat is never empty here)
ReplaceFrom(s, pat, rep, i) ==
    IF i > Len(s) THEN <<>>
    ELSE IF MatchAt(s, pat, i)
         THEN rep \o ReplaceFrom(s, pat, rep, i + Len(pat))
         ELSE <<s[i]>> \o ReplaceFrom(s, pat, rep, i + 1)

\* str::replace(pat, rep)
Replace(s, pat, rep) == ReplaceFrom(s, pat, rep, 1)

RECURSIVE TrimStart(_, _)
TrimStart(s, cs) ==
    IF s # <<>> /\ Head(s) \in cs THEN TrimStart(Tail(s), cs) ELSE s

RECURSIVE TrimEnd(_, _)
TrimEnd(s, cs) ==
    IF s # <<>> /\ s[Len(s)] \in cs THEN TrimEnd(SubSeq(s, 1, Len(s) - 1), cs) ELSE s

\* str::trim_matches(|c| c \in cs): every leading and every trailing
\* character of cs is removed
TrimMatches(s, cs) == TrimEnd(TrimStart(s, cs), cs)

RECURSIVE DigitsOf(_)
\* the decimal digits of a natural number
DigitsOf(n) ==
    LET d == <<"0", "1", "2", "3", "4", "5", "6", "7", "8", "9">>[(n % 10) + 1]
    IN  IF n < 10 THEN <<d>> ELSE DigitsOf(n \div 10) \o <<d>>

\* Number::to_string for an integer
NumberToString(n) == IF n < 0 THEN <<"-">> \o DigitsOf(-n) ELSE DigitsOf(n)

\* bool::to_string
BoolToString(b) == IF b THEN <<"true">> ELSE <<"false">>

(* ------------------------------- JSON --------------------------------- *)

JString(s) == [t |-> "String", s |-> s]
JNumber(n) == [t |-> "Number", n |-> n]
JBool(b)   == [t |-> "Bool", b |-> b]
JNull      == [t |-> "Null"]
JArray(a)  == [t |-> "Array", a |-> a]
JObject(m) == [t |-> "Object", m |-> m]

\* Map::get / Value::get(key) on a map: the value under key, or None
None == [t |-> "None"]
MapKeys(m) == {m[i][1] : i \in 1..Len(m)}
MapGet(m, key) ==
    IF key \in MapKeys(m)
    THEN m[CHOOSE i \in 1..Len(m) : m[i][1] = key][2]
    ELSE None

\* Value::get(key): None unless the value is an object holding key
ValueGet(v, key) == IF v.t = "Object" THEN MapGet(v.m, key) ELSE None

RECURSIVE EscapeFrom(_, _)
\* the body of a JSON string literal: quote, backslash and newline escaped
EscapeFrom(s, i) ==
    IF i > Len(s) THEN <<>>
    ELSE (CASE s[i] = "\"" -> <<"\\", "\"">>
            [] s[i] = "\\" -> <<"\\", "\\">>
            [] s[i] = "\n" -> <<"\\", "n">>
            [] OTHER -> <<s[i]>>) \o EscapeFrom(s, i + 1)

\* serde_json::to_string(&str): the quoted, escaped literal
EscapeString(s) == <<"\"">> \o EscapeFrom(s, 1) \o <<"\"">>

RECURSIVE UnescapeFrom(_, _)
\* the text of a JSON string literal's body read from position i up to
\* the closing quote
UnescapeFrom(s, i) ==
    IF i > Len(s) \/ s[i] = "\"" THEN <<>>
    ELSE IF s[i] = "\\" /\ i < Len(s)
         THEN (CASE s[i + 1] = "n" -> <<"\n">>
                 [] OTHER -> <<s[i + 1]>>) \o UnescapeFrom(s, i + 2)
         ELSE <<s[i]>> \o UnescapeFrom(s, i + 1)

RECURSIVE ToJson(_)
RECURSIVE JoinValues(_, _)
RECURSIVE JoinPairs(_, _)
\* the elements of an array from position i on, comma separated
JoinValues(a, i) ==
    IF i > Len(a) THEN <<>>
    ELSE ToJson(a[i]) \o (IF i < Len(a) THEN <<",">> ELSE <<>>) \o JoinValues(a, i + 1)
\* the entries of a map from position i on, comma separated
JoinPairs(m, i) ==
    IF i > Len(m) THEN <<>>
    ELSE EscapeString(<<m[i][1]>>) \o <<":">> \o ToJson(m[i][2])
         \o (IF i < Len(m) THEN <<",">> ELSE <<>>) \o JoinPairs(m, i + 1)
\* serde_json::to_string: the compact serialization of a Value
ToJson(v) ==
    CASE v.t = "String" -> EscapeString(v.s)
      [] v.t = "Number" -> NumberToString(v.n)
      [] v.t = "Bool"   -> BoolToString(v.b)
      [] v.t = "Null"   -> <<"null">>
      [] v.t = "Array"  -> <<"[">> \o JoinValues(v.a, 1) \o <<"]">>
      [] v.t = "Object" -> <<"{">> \o JoinPairs(v.m, 1) \o <<"}">>

(* ------------------------ template substitution ----------------------- *)

\* format!("{{{}}}", key)
Placeholder(key) == <<"{", key, "}">>

\* the replacement text of a parameter value
Replacement(value) ==
    CASE value.t = "String" -> value.s
      [] value.t = "Number" -> NumberToString(value.n)
      [] value.t = "Bool"   -> BoolToString(value.b)
      [] value.t = "Object" -> TrimMatches(ToJson(value), {"{", "}"})
      [] value.t = "Array"  -> TrimMatches(ToJson(value), {"[", "]"})
      [] value.t = "Null"   -> <<"null">>

RECURSIVE ReplaceLoop(_, _, _)
\* the for loop over the map's entries from position i on
ReplaceLoop(params, command_str, i) ==
    IF i > Len(params) THEN command_str
    ELSE ReplaceLoop(params,
                     Replace(command_str, Placeholder(params[i][1]),
                             Replacement(params[i][2])),
                     i + 1)

\* mutant: a strict renderer that drops the placeholders left unmatched
ReplaceTemplateParamsStrict(params, command_str) ==
    Replace(ReplaceLoop(params, command_str, 1), Placeholder("x"), <<>>)

\* replace_template_params(params, command_str)
ReplaceTemplateParams(params, command_str) == ReplaceLoop(params, command_str, 1)

(* ------------------------------ commands ------------------------------ *)

\* CpiCommandType: a variant and its named fields in declaration order
CreateContainer(image, name, ports, env) ==
    [variant |-> "CreateContainer",
     fields |-> <<<<"image", JString(image)>>, <<"name", JString(name)>>,
                  <<"ports", JArray(ports)>>, <<"env", JObject(env)>>>>]
DeleteContainer(name) ==
    [variant |-> "DeleteContainer", fields |-> <<<<"name", JString(name)>>>>]
StartContainer(name) ==
    [variant |-> "StartContainer", fields |-> <<<<"name", JString(name)>>>>]
StopContainer(name) ==
    [variant |-> "StopContainer", fields |-> <<<<"name", JString(name)>>>>]
RestartContainer(name) ==
    [variant |-> "RestartContainer", fields |-> <<<<"name", JString(name)>>>>]
InspectContainer(name) ==
    [variant |-> "InspectContainer", fields |-> <<<<"name", JString(name)>>>>]
ListContainers == [variant |-> "ListContainers", fields |-> <<>>]

\* impl ToString for CpiCommandType
\* mutant: the arm of StopContainer repeats the tag of StartContainer
ToStringTagRepeated(command) ==
    CASE command.variant = "CreateContainer"  -> "create_container"
      [] command.variant = "DeleteContainer"  -> "delete_container"
      [] command.variant = "StartContainer"   -> "start_container"
      [] command.variant = "StopContainer"    -> "start_container"
      [] command.variant = "RestartContainer" -> "restart_container"
      [] command.variant = "InspectContainer" -> "inspect_container"
      [] command.variant = "ListContainers"   -> "list_containers"

ToStringTag(command) ==
    CASE command.variant = "CreateContainer"  -> "create_container"
      [] command.variant = "DeleteContainer"  -> "delete_container"
      [] command.variant = "StartContainer"   -> "start_container"
      [] command.variant = "StopContainer"    -> "stop_container"
      [] command.variant = "RestartContainer" -> "restart_container"
      [] command.variant = "InspectContainer" -> "inspect_container"
      [] command.variant = "ListContainers"   -> "list_containers"

\* the #[serde(rename = ...)] name of each variant
SerdeName(command) ==
    CASE command.variant = "CreateContainer"  -> "create_container"
      [] command.variant = "DeleteContainer"  -> "delete_container"
      [] command.variant = "StartContainer"   -> "start_container"
      [] command.variant = "StopContainer"    -> "stop_container"
      [] command.variant = "RestartContainer" -> "restart_container"
      [] command.variant = "InspectContainer" -> "inspect_container"
      [] command.variant = "ListContainers"   -> "list_containers"

\* the field names of CpiCommandType in the order of a serde_json Map
\* (a BTreeMap: ascending keys)
SortedFieldNames == <<"env", "image", "name", "ports">>

RECURSIVE FieldsInMapOrder(_, _)
\* the fields of a variant as a serde_json Map
FieldsInMapOrder(fields, k) ==
    IF k > Len(SortedFieldNames) THEN <<>>
    ELSE (IF SortedFieldNames[k] \in MapKeys(fields)
          THEN <<<<SortedFieldNames[k], MapGet(fields, SortedFieldNames[k])>>>>
          ELSE <<>>) \o FieldsInMapOrder(fields, k + 1)

\* serde_json::to_value(&command): an externally tagged enum; a unit
\* variant serializes as its name, a struct variant as {name: {fields}}
ToValue(command) ==
    IF command.fields = <<>>
    THEN JString(<<SerdeName(command)>>)
    ELSE JObject(<<<<SerdeName(command),
                     JObject(FieldsInMapOrder(command.fields, 1))>>>>)

(* ------------------------------- results ------------------------------ *)

\* anyhow::Error, by its message
Err(msg) == [kind |-> "Err", msg |-> msg]
\* Ok(value)
Ok(value) == [kind |-> "Ok", value |-> value]
\* the thread unwinds: execute returns nothing to its caller
Panic == [kind |-> "Panic"]
\* no result yet
Pending == [kind |-> "Pending"]

\* a lexeme standing for a byte sequence that is not UTF-8
InvalidByte == "<FF>"

\* String::from_utf8(bytes).context(msg)
\* mutant: the bytes are taken as text whatever they are
FromUtf8Unchecked(bytes, msg) == Ok(bytes)

FromUtf8(bytes, msg) ==
    IF \E j \in 1..Len(bytes) : bytes[j] = InvalidByte THEN Err(msg) ELSE Ok(bytes)

(* ------------------------- resolving the action ----------------------- *)

RECURSIVE PostExecStrings(_, _)
\* the map/collect over the post_exec array from position j on: the
\* templates, or the error of the first element that is not a string
PostExecStrings(arr, j) ==
    IF j > Len(arr) THEN Ok(<<>>)
    ELSE IF arr[j].t # "String"
         THEN Err(<<"post exec command was not a valid string">>)
         ELSE LET rest == PostExecStrings(arr, j + 1)
              IN  IF rest.kind = "Err" THEN rest ELSE Ok(<<arr[j].s>> \o rest.value)

\* mutant: a post_exec that is not an array counts as absent and elements
\* that are not strings are skipped
PostExecTemplatesLenient(command_type) ==
    LET post_exec == ValueGet(command_type, "post_exec")
        strings == IF post_exec.t = "Array"
                   THEN SelectSeq(post_exec.a, LAMBDA v : v.t = "String")
                   ELSE <<>>
    IN  Ok([j \in 1..Len(strings) |-> strings[j].s])

\* the post_exec templates of an action entry
PostExecTemplates(command_type) ==
    LET post_exec == ValueGet(command_type, "post_exec")
    IN  IF post_exec.t = "None" THEN Ok(<<>>)
        ELSE IF post_exec.t # "Array"
             THEN Err(<<"Post exec commands found but were not an array">>)
             ELSE PostExecStrings(post_exec.a, 1)

\* mutant: the serialized command itself is taken as the parameter map
ExtractParamsOuterObject(command) ==
    LET params == ToValue(command)
    IN  IF params.t # "Object" \/ params.m = <<>> THEN Ok(<<>>) ELSE Ok(params.m)

\* the parameter map of a command
ExtractParams(command) ==
    LET params == ToValue(command)
    IN  IF params.t # "Object" \/ params.m = <<>> THEN Ok(<<>>)
        ELSE IF params.m[1][2].t = "Object" THEN Ok(params.m[1][2].m)
             ELSE Err(<<"failed to extract params from command">>)

\* mutant: an unknown tag is run as a command of its own name
ResolveDefaultsUnknownTag(config, command) ==
    LET actions == ValueGet(config, "actions")
        command_type == ValueGet(actions, ToStringTag(command))
    IN  IF actions.t = "None"
        THEN Err(<<"'actions' was not defined in the config">>)
        ELSE IF command_type.t = "None" \/ ValueGet(command_type, "command").t # "String"
             THEN Ok([command_template |-> <<ToStringTag(command)>>,
                      post_exec_templates |-> <<>>, params |-> <<>>])
             ELSE Ok([command_template |-> ValueGet(command_type, "command").s,
                      post_exec_templates |-> <<>>,
                      params |-> ExtractParams(command).value])

\* mutant: a configuration without actions runs the tag itself as a command
ResolveWithoutActions(config, command) ==
    LET actions == ValueGet(config, "actions")
        command_type == ValueGet(actions, ToStringTag(command))
        command_template == ValueGet(command_type, "command")
    IN  IF actions.t # "Object"
        THEN Ok([command_template |-> <<ToStringTag(command)>>,
                 post_exec_templates |-> <<>>, params |-> <<>>])
        ELSE IF command_type.t = "None"
        THEN Err(<<"Command type not found for '", ToStringTag(command), "'">>)
        ELSE IF command_template.t = "None"
        THEN Err(<<"'command field not found for command type'">>)
        ELSE IF command_template.t # "String" THEN Panic
        ELSE IF PostExecTemplates(command_type).kind = "Err"
        THEN PostExecTemplates(command_type)
        ELSE IF ExtractParams(command).kind = "Err" THEN ExtractParams(command)
        ELSE Ok([command_template |-> command_template.s,
                 post_exec_templates |-> PostExecTemplates(command_type).value,
                 params |-> ExtractParams(command).value])

\* execute up to the rendering of the main command: Ok with the main
\* template, the post-exec templates and the parameter map, or the error
\* (or panic) that ends the call before anything is spawned
Resolve(config, command) ==
    LET actions == ValueGet(config, "actions")
    IN  IF actions.t = "None"
        THEN Err(<<"'actions' was not defined in the config">>)
        ELSE
    LET command_type == ValueGet(actions, ToStringTag(command))
    IN  IF command_type.t = "None"
        THEN Err(<<"Command type not found for '", ToStringTag(command), "'">>)
        ELSE
    LET command_template == ValueGet(command_type, "command")
    IN  IF command_template.t = "None"
        THEN Err(<<"'command field not found for command type'">>)
        ELSE IF command_template.t # "String" THEN Panic
        ELSE
    LET post_exec_templates == PostExecTemplates(command_type)
    IN  IF post_exec_templates.kind = "Err" THEN post_exec_templates
        ELSE
    LET params == ExtractParams(command)
    IN  IF params.kind = "Err" THEN params
        ELSE Ok([command_template |-> command_template.s,
                 post_exec_templates |-> post_exec_templates.value,
                 params |-> params.value])

(* --------------------------- process launch --------------------------- *)

RECURSIVE SplitWhitespace(_, _, _)
\* str::split_whitespace from position j on, cur being the word read so far
SplitWhitespace(s, j, cur) ==
    IF j > Len(s) THEN (IF cur = <<>> THEN <<>> ELSE <<cur>>)
    ELSE IF s[j] \in {" ", "\n"}
         THEN (IF cur = <<>> THEN <<>> ELSE <<cur>>) \o SplitWhitespace(s, j + 1, <<>>)
         ELSE SplitWhitespace(s, j + 1, Append(cur, s[j]))

\* the position of the first blank of s, or Len(s) + 1
FirstBlank(s) ==
    IF \E j \in 1..Len(s) : s[j] = " "
    THEN CHOOSE j \in 1..Len(s) : s[j] = " " /\ \A k \in 1..(j - 1) : s[k] # " "
    ELSE Len(s) + 1

\* what execute_shell_cmd hands to Command::new(..).args(..)
CommandLine(command_str) ==
    [line |-> command_str,
     executable |-> SubSeq(command_str, 1, FirstBlank(command_str) - 1),
     args |-> SplitWhitespace(SubSeq(command_str, FirstBlank(command_str) + 1,
                                     Len(command_str)), 1, <<>>)]

\* mutant: the trailing newline of the output is trimmed
SuccessValueTrimmed(output_str) ==
    JObject(<<<<"result", JString(TrimEnd(output_str, {"\n"}))>>>>)

\* the value execute returns on success: the main command's stdout,
\* escaped by serde_json::to_string and parsed back inside {"result": ..}
SuccessValue(output_str) ==
    LET escaped_output_str == EscapeString(output_str)
    IN  JObject(<<<<"result", JString(UnescapeFrom(escaped_output_str, 2))>>>>)

(* ------------------------------- state -------------------------------- *)

VARIABLES
    file,       \* the content of ./CPIs/cpi-docker-win.json on disk
    cpi,        \* per caller: the result of its last CpiCommand::new()
    call,       \* per caller: the execute call it is in
    rTemplate,  \* rendering specification: the template
    rParams,    \* rendering specification: the parameter map
    rOutput,    \* rendering specification: what replace_template_params returned
    rDone,      \* rendering specification: whether it has been applied
    taken,      \* per caller: the call it returned from last
    pb,         \* parse_bytes: its argument and what it returned
    dm,         \* DockerManager::initialize: the host and the call's progress
    inst,       \* the instance routes: registry, containers, request in progress
    gate,       \* main.rs: DOCKER_AVAILABLE and the requests in progress
    stream      \* start_metrics_stream: the loop's progress and what was sent

engineVars == <<file, cpi, call>>
renderVars == <<rTemplate, rParams, rOutput, rDone>>
\* everything of the CPI engine
cpiVars == <<file, cpi, call, rTemplate, rParams, rOutput, rDone, taken>>
\* the state of the agent's other modules
serviceVars == <<pb, dm, inst, gate, stream>>
vars == <<engineVars, renderVars, taken, serviceVars>>

\* the callers (threads of the route layer)
Callers == {1, 2}

(* ------------------------- enumerated inputs -------------------------- *)

\* the k-th post-exec template of the enumerated configurations
PostTemplate(k) == <<"step", " ">> \o DigitsOf(k) \o <<" ", "{", "name", "}">>

RECURSIVE PostTemplates(_, _)
\* the templates k..n as a JSON array's elements
PostTemplates(k, n) ==
    IF k > n THEN <<>> ELSE <<JString(PostTemplate(k))>> \o PostTemplates(k + 1, n)

\* a configuration with a chain of MaxPostExec steps for start_container,
\* no post_exec for list_containers, and no entry for stop_container
DocDocker ==
    JObject(<<<<"actions", JObject(<<
        <<"create_container", JObject(<<
            <<"command", JString(<<"docker", " ", "run", " ", "{", "image", "}",
                                   " ", "-p", " ", "{", "ports", "}">>)>>,
            <<"post_exec", JArray(<<JString(<<"docker", " ", "start", " ",
                                              "{", "name", "}">>)>>)>> >>)>>,
        <<"list_containers", JObject(<<
            <<"command", JString(<<"docker", " ", "ps">>)>> >>)>>,
        <<"start_container", JObject(<<
            <<"command", JString(<<"docker", " ", "start", " ", "{", "name", "}">>)>>,
            <<"post_exec", JArray(PostTemplates(1, MaxPostExec))>> >>)>>
    >>)>> >>)

\* the same actions for another runtime
DocPodman ==
    JObject(<<<<"actions", JObject(<<
        <<"delete_container", JObject(<<
            <<"command", JString(<<"podman", " ", "rm", " ", "{", "name", "}">>)>> >>)>>,
        <<"inspect_container", JObject(<<
            <<"command", JString(<<"podman", " ", "inspect", " ", "{", "name", "}">>)>> >>)>>,
        <<"restart_container", JObject(<<
            <<"command", JString(<<"podman", " ", "restart", " ", "{", "name", "}">>)>> >>)>>,
        <<"list_containers", JObject(<<
            <<"command", JString(<<"podman", " ", "ps">>)>>,
            <<"post_exec", JArray(<<>>)>> >>)>>,
        <<"start_container", JObject(<<
            <<"command", JString(<<"podman", " ", "start", " ", "{", "name", "}">>)>>,
            <<"post_exec", JArray(<<JString(<<"podman", " ", "inspect", " ",
                                              "{", "name", "}">>)>>)>> >>)>>
    >>)>> >>)

\* action entries that are not well formed
DocBadEntries ==
    JObject(<<<<"actions", JObject(<<
        <<"create_container", JObject(<<
            <<"command", JString(<<"docker", " ", "run">>)>>,
            <<"post_exec", JString(<<"docker", " ", "ps">>)>> >>)>>,
        <<"list_containers", JObject(<<<<"command", JNumber(5)>> >>)>>,
        <<"start_container", JObject(<<<<"post_exec", JArray(<<>>)>> >>)>>,
        <<"stop_container", JObject(<<
            <<"command", JString(<<"docker", " ", "stop", " ", "{", "name", "}">>)>>,
            <<"post_exec", JArray(<<JString(PostTemplate(1)), JNumber(5)>>)>> >>)>>
    >>)>> >>)

\* well-formed JSON without an actions object
DocNoActions == JObject(<<<<"version", JNumber(1)>> >>)
DocActionsNotObject == JObject(<<<<"actions", JArray(<<>>)>> >>)

Docs == {DocDocker, DocPodman, DocBadEntries, DocNoActions, DocActionsNotObject}

\* a file that cannot be read, and one that is not JSON
Unreadable == [t |-> "Unreadable"]
Malformed == [t |-> "Malformed"]
FileContents == Docs \cup {Unreadable, Malformed}

Commands ==
    { StartContainer(<<"web">>),
      StopContainer(<<"web">>),
      DeleteContainer(<<"web">>),
      RestartContainer(<<"web">>),
      InspectContainer(<<"web">>),
      ListContainers,
      CreateContainer(<<"nginx">>, <<"web">>, <<JString(<<"80:80">>)>>, <<>>) }

\* what a subprocess may write to stdout and to stderr
StdoutBytes == { <<>>, <<"web", "\n">>, <<"\"", "\\">>, <<InvalidByte>> }
StderrBytes == { <<>>, <<"No such container: web">>, <<InvalidByte>> }

\* std::process::Output: exit status, stdout and stderr
Outputs == [exit : {0, 1}, stdout : StdoutBytes, stderr : StderrBytes]

(* ------------------------------ the calls ----------------------------- *)

NoOutput == [exit |-> -1, stdout |-> <<>>, stderr |-> <<>>]

\* a caller that is not inside execute.  spawned (the command lines handed
\* to Command::new(..).output(), in order), exited (how many of these
\* processes have terminated), main and last (the Output of the main command
\* and of the process that terminated last) record what the call has done
IdleCall ==
    [pc |-> "idle", command |-> None, params |-> <<>>,
     post_exec_templates |-> <<>>, i |-> 0, spawned |-> <<>>, exited |-> 0,
     main |-> NoOutput, output_str |-> <<>>, last |-> NoOutput,
     result |-> Pending]

\* the io::Error of a process that could not be launched
SpawnError == Err(<<"io error">>)

\* execute_shell_cmd(command_str)? inside call k at step pc: the process
\* runs, or could not be launched and the call ends with the io error
Launch(k, pc, command_str, launched) ==
    IF launched
    THEN [k EXCEPT !.pc = pc, !.spawned = Append(@, CommandLine(command_str))]
    ELSE [k EXCEPT !.pc = "done", !.spawned = Append(@, CommandLine(command_str)),
                   !.result = SpawnError]

\* the call ends with result r
Finish(k, r) == [k EXCEPT !.pc = "done", !.result = r]

\* the non-zero exit branch: the failure built from the stderr bytes
StderrFailure(stderr, msg) ==
    LET error_msg == FromUtf8(stderr, msg)
    IN  IF error_msg.kind = "Err" THEN error_msg ELSE Err(error_msg.value)

\* mutant: the success value carries the last post-exec step's stdout too
RunPostExecAppendsOutput(k, i, launched) ==
    IF i < Len(k.post_exec_templates)
    THEN Launch([k EXCEPT !.i = i], "post",
                ReplaceTemplateParams(k.params, k.post_exec_templates[i + 1]),
                launched)
    ELSE Finish(k, Ok(SuccessValue(k.output_str
                                   \o (IF i > 0 THEN k.last.stdout ELSE <<>>))))

\* mutant: post-exec templates are rendered against a map that lost an entry
RunPostExecDropsParam(k, i, launched) ==
    IF i < Len(k.post_exec_templates)
    THEN Launch([k EXCEPT !.i = i], "post",
                ReplaceTemplateParams(SubSeq(k.params, 2, Len(k.params)),
                                      k.post_exec_templates[i + 1]),
                launched)
    ELSE Finish(k, Ok(SuccessValue(k.output_str)))

\* mutant: a post-exec step that cannot be launched is skipped
RunPostExecSkipsFailedLaunch(k, i, launched) ==
    IF i < Len(k.post_exec_templates)
    THEN IF launched
         THEN Launch([k EXCEPT !.i = i], "post",
                     ReplaceTemplateParams(k.params, k.post_exec_templates[i + 1]),
                     TRUE)
         ELSE LET skipped == [k EXCEPT !.spawned = Append(@, CommandLine(
                                 ReplaceTemplateParams(k.params,
                                                       k.post_exec_templates[i + 1])))]
              IN  IF i + 1 < Len(k.post_exec_templates)
                  THEN Launch([skipped EXCEPT !.i = i + 1], "post",
                              ReplaceTemplateParams(k.params,
                                                    k.post_exec_templates[i + 2]),
                              TRUE)
                  ELSE Finish(skipped, Ok(SuccessValue(k.output_str)))
    ELSE Finish(k, Ok(SuccessValue(k.output_str)))

\* the post-exec loop from index i on: the next template is rendered and
\* launched, or the loop is over and the call returns the success value
RunPostExec(k, i, launched) ==
    IF i < Len(k.post_exec_templates)
    THEN Launch([k EXCEPT !.i = i], "post",
                ReplaceTemplateParams(k.params, k.post_exec_templates[i + 1]),
                launched)
    ELSE Finish(k, Ok(SuccessValue(k.output_str)))

\* execute(command) on an instance holding config, up to the launch of the
\* main command
StartOfCall(config, command, launched) ==
    LET r == Resolve(config, command)
        k == [IdleCall EXCEPT !.command = command]
    IN  IF r.kind # "Ok" THEN Finish(k, r)
        ELSE Launch([k EXCEPT !.params = r.value.params,
                              !.post_exec_templates = r.value.post_exec_templates],
                    "main",
                    ReplaceTemplateParams(r.value.params, r.value.command_template),
                    launched)

(* ------------------------------ actions ------------------------------- *)

\* CpiCommand::new() on a file holding content: the file is read and
\* parsed; the instance keeps the parsed document's serialization
\* (represented by the document)
LoadConfig(content) ==
    CASE content.t = "Unreadable" -> Err(<<"io error">>)
      [] content.t = "Malformed"  -> Err(<<"json error">>)
      [] OTHER -> Ok([config |-> content])

\* let cpi = CpiCommand::new() by caller c
New(c) ==
    /\ call[c].pc = "idle"
    /\ cpi' = [cpi EXCEPT ![c] = LoadConfig(file)]
    /\ UNCHANGED <<file, call, renderVars, taken, serviceVars>>

\* the configuration file is edited on disk
EditFile(content) ==
    /\ file # content
    /\ file' = content
    /\ UNCHANGED <<cpi, call, renderVars, taken, serviceVars>>

\* mutant: execute reads the file again instead of using the instance's text
ExecuteRereadsFile(c, command, launched) ==
    /\ call[c].pc = "idle"
    /\ cpi[c].kind = "Ok"
    /\ call' = [call EXCEPT ![c] =
            IF LoadConfig(file).kind = "Ok"
            THEN StartOfCall(file, command, launched)
            ELSE Finish([IdleCall EXCEPT !.command = command], LoadConfig(file))]
    /\ UNCHANGED <<file, cpi, renderVars, taken, serviceVars>>

\* mutant: execute takes a lock that a call in progress holds
CanExecuteLocked(c) ==
    /\ call[c].pc = "idle"
    /\ cpi[c].kind = "Ok"
    /\ \A d \in Callers \ {c} : call[d].pc \notin {"main", "post"}

\* what execute(&self, ..) needs to start: a caller that holds an instance
\* and is not inside a call of its own
CanExecute(c) ==
    /\ call[c].pc = "idle"
    /\ cpi[c].kind = "Ok"

\* mutant: execute takes the actions out of the instance's configuration
ExecuteConsumesConfig(c, command, launched) ==
    /\ CanExecute(c)
    /\ call' = [call EXCEPT ![c] = StartOfCall(cpi[c].value.config, command, launched)]
    /\ cpi' = [cpi EXCEPT ![c] = Ok([config |-> DocNoActions])]
    /\ UNCHANGED <<file, renderVars, taken, serviceVars>>

\* cpi.execute(command) by caller c, up to the launch of the main command
Execute(c, command, launched) ==
    /\ CanExecute(c)
    /\ call' = [call EXCEPT ![c] = StartOfCall(cpi[c].value.config, command, launched)]
    /\ UNCHANGED <<file, cpi, renderVars, taken, serviceVars>>

\* mutant: the main command's exit status is not checked
MainExitIgnoresStatus(c, output, launched) ==
    /\ call[c].pc = "main"
    /\ LET k == [call[c] EXCEPT !.main = output, !.last = output, !.exited = @ + 1]
           output_str == FromUtf8(output.stdout, <<"failed to parse stdout as UTF-8">>)
       IN  call' = [call EXCEPT ![c] =
                IF output_str.kind = "Err" THEN Finish(k, output_str)
                ELSE RunPostExec([k EXCEPT !.output_str = output_str.value], 0, launched)]
    /\ UNCHANGED <<file, cpi, renderVars, taken, serviceVars>>

\* mutant: after a main command without post-exec steps has succeeded,
\* execute waits for something that never comes
MainExitNeverReturns(c, output, launched) ==
    /\ call[c].pc = "main"
    /\ LET k == [call[c] EXCEPT !.main = output, !.last = output, !.exited = @ + 1]
           output_str == FromUtf8(output.stdout, <<"failed to parse stdout as UTF-8">>)
       IN  call' = [call EXCEPT ![c] =
                IF output.exit # 0
                THEN Finish(k, StderrFailure(output.stderr,
                                             <<"failed to parse stderr as UTF-8">>))
                ELSE IF output_str.kind = "Err" THEN Finish(k, output_str)
                ELSE IF k.post_exec_templates = <<>>
                THEN [k EXCEPT !.pc = "waiting", !.output_str = output_str.value]
                ELSE RunPostExec([k EXCEPT !.output_str = output_str.value], 0, launched)]
    /\ UNCHANGED <<file, cpi, renderVars, taken, serviceVars>>

\* mutant: the main command's stdout is not decoded before the post-exec
\* chain is started
MainExitDecodesLate(c, output, launched) ==
    /\ call[c].pc = "main"
    /\ LET k == [call[c] EXCEPT !.main = output, !.last = output, !.exited = @ + 1]
       IN  call' = [call EXCEPT ![c] =
                IF output.exit # 0
                THEN Finish(k, StderrFailure(output.stderr,
                                             <<"failed to parse stderr as UTF-8">>))
                ELSE RunPostExec([k EXCEPT !.output_str = output.stdout], 0, launched)]
    /\ UNCHANGED <<file, cpi, renderVars, taken, serviceVars>>

\* the main command's process terminates with output; execute goes on to
\* the launch of the first post-exec command, or returns
MainExit(c, output, launched) ==
    /\ call[c].pc = "main"
    /\ LET k == [call[c] EXCEPT !.main = output, !.last = output, !.exited = @ + 1]
           output_str == FromUtf8(output.stdout, <<"failed to parse stdout as UTF-8">>)
       IN  call' = [call EXCEPT ![c] =
                IF output.exit # 0
                THEN Finish(k, StderrFailure(output.stderr,
                                             <<"failed to parse stderr as UTF-8">>))
                ELSE IF output_str.kind = "Err" THEN Finish(k, output_str)
                ELSE RunPostExec([k EXCEPT !.output_str = output_str.value], 0, launched)]
    /\ UNCHANGED <<file, cpi, renderVars, taken, serviceVars>>

\* mutant: a failing post-exec step does not stop the chain
PostExitIgnoresStatus(c, output, launched) ==
    /\ call[c].pc = "post"
    /\ LET k == [call[c] EXCEPT !.last = output, !.exited = @ + 1]
       IN  call' = [call EXCEPT ![c] = RunPostExec(k, k.i + 1, launched)]
    /\ UNCHANGED <<file, cpi, renderVars, taken, serviceVars>>

\* mutant: a post-exec step that exits non-zero is launched a second time
PostExitRetries(c, output, launched) ==
    /\ call[c].pc = "post"
    /\ LET k == [call[c] EXCEPT !.last = output, !.exited = @ + 1]
       IN  call' = [call EXCEPT ![c] =
                IF output.exit # 0 /\ k.exited = k.i + 2
                THEN Launch(k, "post",
                            ReplaceTemplateParams(k.params,
                                                  k.post_exec_templates[k.i + 1]),
                            launched)
                ELSE IF output.exit # 0
                THEN Finish(k, StderrFailure(output.stderr,
                                             <<"failed to parse post-exec stderr as UTF-8">>))
                ELSE RunPostExec(k, k.i + 1, launched)]
    /\ UNCHANGED <<file, cpi, renderVars, taken, serviceVars>>

\* the process of post-exec step call[c].i terminates with output; execute
\* goes on to the launch of the next step, or returns
PostExit(c, output, launched) ==
    /\ call[c].pc = "post"
    /\ LET k == [call[c] EXCEPT !.last = output, !.exited = @ + 1]
       IN  call' = [call EXCEPT ![c] =
                IF output.exit # 0
                THEN Finish(k, StderrFailure(output.stderr,
                                             <<"failed to parse post-exec stderr as UTF-8">>))
                ELSE RunPostExec(k, k.i + 1, launched)]
    /\ UNCHANGED <<file, cpi, renderVars, taken, serviceVars>>

\* the caller takes the result (or unwinds) and is ready for another call
Return(c) ==
    /\ call[c].pc = "done"
    /\ call' = [call EXCEPT ![c] = IdleCall]
    /\ UNCHANGED <<file, cpi, renderVars, taken, serviceVars>>

(* --------------------------- specifications --------------------------- *)

\* the caller takes the result and keeps it while it makes its next call on
\* the same instance
ReturnKeeping(c) ==
    /\ call[c].pc = "done"
    /\ taken' = [taken EXCEPT ![c] = call[c]]
    /\ call' = [call EXCEPT ![c] = IdleCall]
    /\ UNCHANGED <<file, cpi, renderVars, serviceVars>>

RenderIdle ==
    /\ rTemplate = <<>>
    /\ rParams = <<>>
    /\ rOutput = <<>>
    /\ rDone = FALSE

\* no caller has returned from a call yet
NothingTaken == taken = [c \in Callers |-> IdleCall]

\* the agent's other modules have not been entered
ServiceIdle ==
    /\ pb = [s |-> <<>>, result |-> Pending]
    /\ dm = [pc |-> "idle"]
    /\ inst = [pc |-> "idle"]
    /\ gate = [pc |-> "idle"]
    /\ stream = [pc |-> "idle"]

\* one caller, any file content, before any instance exists
Init ==
    /\ file \in FileContents
    /\ cpi = [c \in Callers |-> Pending]
    /\ call = [c \in Callers |-> IdleCall]
    /\ RenderIdle
    /\ NothingTaken
    /\ ServiceIdle

Next ==
    \/ New(1)
    \/ \E content \in FileContents : EditFile(content)
    \/ \E command \in Commands, launched \in BOOLEAN : Execute(1, command, launched)
    \/ \E output \in Outputs, launched \in BOOLEAN : MainExit(1, output, launched)
    \/ \E output \in Outputs, launched \in BOOLEAN : PostExit(1, output, launched)
    \/ Return(1)

Spec == Init /\ [][Next]_vars

(* --------------------- the rendering specification -------------------- *)

\* the pieces templates are made of: placeholders of the two parameter
\* names, a placeholder of a name that is never a parameter, single braces
\* and words
Pieces ==
    { <<"{", "name", "}">>, <<"{", "image", "}">>, <<"{", "x", "}">>,
      <<"{">>, <<"}">>, <<"name">>, <<"run", " ">> }

\* the templates made of at most MaxPieces pieces
RenderTemplates ==
    { Concat(ps) : ps \in UNION { [1..n -> Pieces] : n \in 0..MaxPieces } }

\* parameter values of every kind of Value
NameValues ==
    { JString(<<"web">>), JString(<<"{", "image", "}">>), JNumber(80),
      JBool(TRUE), JNull,
      JArray(<<JString(<<"80:80">>), JString(<<"443:443">>)>>),
      JArray(<<JArray(<<JNumber(1)>>)>>),
      JObject(<<<<"K", JObject(<<>>)>> >>) }
ImageValues ==
    { JString(<<"nginx">>), JString(<<"{", "name", "}">>), JString(<<"name">>) }

\* the parameter maps over the keys name and image, in either iteration
\* order (serde_json's Map iterates in key order, or in insertion order when
\* built with preserve_order)
RenderMaps ==
    {<<>>}
    \cup { <<<<"name", v>>>> : v \in NameValues }
    \cup { <<<<"image", w>>>> : w \in ImageValues }
    \cup { <<<<"name", v>>, <<"image", w>>>> : v \in NameValues, w \in ImageValues }
    \cup { <<<<"image", w>>, <<"name", v>>>> : v \in NameValues, w \in ImageValues }

EngineIdle ==
    /\ file = Unreadable
    /\ cpi = [c \in Callers |-> Pending]
    /\ call = [c \in Callers |-> IdleCall]

InitRender ==
    /\ EngineIdle
    /\ rTemplate \in RenderTemplates
    /\ rParams \in RenderMaps
    /\ rOutput = <<>>
    /\ rDone = FALSE
    /\ NothingTaken
    /\ ServiceIdle

\* replace_template_params(&rParams, &mut rTemplate.to_string())
Render ==
    /\ ~rDone
    /\ rOutput' = ReplaceTemplateParams(rParams, rTemplate)
    /\ rDone' = TRUE
    /\ UNCHANGED <<rTemplate, rParams, engineVars, taken, serviceVars>>

NextRender == Render

SpecRender == InitRender /\ [][NextRender]_vars

(* ------------------------ two concurrent callers ---------------------- *)

PairCommands == { StartContainer(<<"web">>), ListContainers }
PairOutputs ==
    [exit : {0, 1}, stdout : {<<>>, <<"web", "\n">>},
     stderr : {<<>>, <<"No such container: web">>}]

InitPair ==
    /\ file \in {DocDocker, DocPodman}
    /\ cpi = [c \in Callers |-> Pending]
    /\ call = [c \in Callers |-> IdleCall]
    /\ RenderIdle
    /\ NothingTaken
    /\ ServiceIdle

NextPair ==
    \E c \in Callers :
        \/ New(c)
        \/ \E command \in PairCommands, launched \in BOOLEAN : Execute(c, command, launched)
        \/ \E output \in PairOutputs, launched \in BOOLEAN : MainExit(c, output, launched)
        \/ \E output \in PairOutputs, launched \in BOOLEAN : PostExit(c, output, launched)
        \/ Return(c)

SpecPair == InitPair /\ [][NextPair]_vars

\* successive calls of one caller on one instance, each result kept until
\* the next call has returned
InitAgain ==
    /\ file \in {DocDocker, DocPodman}
    /\ cpi = [c \in Callers |-> Pending]
    /\ call = [c \in Callers |-> IdleCall]
    /\ RenderIdle
    /\ NothingTaken
    /\ ServiceIdle

NextAgain ==
    \/ New(1)
    \/ \E command \in PairCommands, launched \in BOOLEAN : Execute(1, command, launched)
    \/ \E output \in PairOutputs, launched \in BOOLEAN : MainExit(1, output, launched)
    \/ \E output \in PairOutputs, launched \in BOOLEAN : PostExit(1, output, launched)
    \/ ReturnKeeping(1)

SpecAgain == InitAgain /\ [][NextAgain]_vars

\* a process launched by caller c terminates: Command::output() returns
ProcessExit(c) ==
    \E output \in PairOutputs, launched \in BOOLEAN :
        \/ MainExit(c, output, launched)
        \/ PostExit(c, output, launched)

\* one caller whose processes all terminate
NextLive ==
    \/ New(1)
    \/ \E command \in PairCommands, launched \in BOOLEAN : Execute(1, command, launched)
    \/ ProcessExit(1)
    \/ Return(1)

SpecLive == InitAgain /\ [][NextLive]_vars /\ WF_vars(ProcessExit(1))

(* ---------------------- metrics.rs: parse_bytes ----------------------- *)

\* In this section a string is the sequence of its characters.

\* char::is_whitespace, on the characters of the inputs
Whitespace == {" "}

\* str::trim
Trim(s) == TrimMatches(s, Whitespace)

\* the letters of the inputs, lower case to upper case
UpperOf ==
    [ch \in {"B", "K", "M", "G", "T", "I"} |-> ch] @@
    ("b" :> "B") @@ ("k" :> "K") @@ ("m" :> "M") @@ ("g" :> "G") @@
    ("i" :> "I") @@ ("n" :> "N") @@ ("v" :> "V") @@ ("a" :> "A") @@
    ("l" :> "L") @@ ("d" :> "D")

\* char::is_alphabetic
IsAlphabetic(ch) == ch \in DOMAIN UpperOf

\* str::to_uppercase
ToUppercase(s) ==
    [j \in 1..Len(s) |-> IF IsAlphabetic(s[j]) THEN UpperOf[s[j]] ELSE s[j]]

RECURSIVE SplitInclusive(_, _, _)
\* str::split_inclusive(char::is_alphabetic) from position j on, cur being
\* the part read so far: a part ends with the alphabetic character that
\* terminates it; what follows the last such character, if anything, is the
\* last part
SplitInclusive(s, j, cur) ==
    IF j > Len(s) THEN (IF cur = <<>> THEN <<>> ELSE <<cur>>)
    ELSE IF IsAlphabetic(s[j])
         THEN <<Append(cur, s[j])>> \o SplitInclusive(s, j + 1, <<>>)
         ELSE SplitInclusive(s, j + 1, Append(cur, s[j]))

\* the decimal digits
DecimalDigits == {"0", "1", "2", "3", "4", "5", "6", "7", "8", "9"}

\* the value of a decimal digit
DigitValue(ch) == CHOOSE d \in 0..9 : DigitsOf(d) = <<ch>>

RECURSIVE DecimalValue(_)
\* the value of a sequence of decimal digits
DecimalValue(ds) ==
    IF ds = <<>> THEN 0
    ELSE 10 * DecimalValue(SubSeq(ds, 1, Len(ds) - 1)) + DigitValue(ds[Len(ds)])

\* the characters of s that are not ch
Without(s, ch) == SelectSeq(s, LAMBDA x : x # ch)

\* str::parse::<f64>() on a string whose letters, if any, come last (a part
\* of split_inclusive has no other): digits with at most one point and at
\* least one digit, after an optional minus sign, give the number
\* mant / 10^scale; anything else is an error
ParseF64(s) ==
    LET neg    == s # <<>> /\ Head(s) = "-"
        body   == IF neg THEN Tail(s) ELSE s
        digits == Without(body, ".")
        point  == IF \E j \in 1..Len(body) : body[j] = "."
                  THEN CHOOSE j \in 1..Len(body) : body[j] = "."
                  ELSE Len(body) + 1
    IN  IF /\ digits # <<>>
           /\ \A j \in 1..Len(digits) : digits[j] \in DecimalDigits
           /\ Len(body) - Len(digits) <= 1
        THEN Ok([neg |-> neg, mant |-> DecimalValue(digits),
                 scale |-> Len(digits) - (point - 1)])
        ELSE Err(<<"invalid float literal">>)

\* the match on the unit: the multiplier, or None
Multiplier(unit) ==
    CASE unit = <<"B">> -> 1
      [] unit \in {<<"K", "B">>, <<"K", "I", "B">>} -> 1024
      [] unit \in {<<"M", "B">>, <<"M", "I", "B">>} -> 1024 * 1024
      [] unit \in {<<"G", "B">>, <<"G", "I", "B">>} -> 1024 * 1024 * 1024
      [] OTHER -> 0

RECURSIVE PowerOfTen(_)
PowerOfTen(k) == IF k = 0 THEN 1 ELSE 10 * PowerOfTen(k - 1)

\* (number * multiplier) as u64: the product truncated toward zero, a
\* negative product giving 0
AsU64(number, multiplier) ==
    IF number.neg THEN 0
    ELSE (number.mant * multiplier) \div PowerOfTen(number.scale)

\* parse_bytes(s)
ParseBytes(s) ==
    LET t == Trim(s)
    IN  IF t = <<>> THEN Ok(0)
        ELSE
    LET parts == SplitInclusive(t, 1, <<>>)
    IN  IF Len(parts) # 2 THEN Err(<<"Invalid byte format">>)
        ELSE
    LET number == ParseF64(Trim(parts[1]))
        unit   == ToUppercase(Trim(parts[2]))
    IN  IF number.kind = "Err" THEN number
        ELSE IF Multiplier(unit) = 0 THEN Err(<<"Unknown unit">>)
        ELSE Ok(AsU64(number.value, Multiplier(unit)))

\* the numbers of the enumerated size strings
PbNumbers ==
    { <<"1">>, <<"1", ".", "5">>, <<"2", ".", "5">>, <<"1", "0">>, <<"0">>,
      <<".", "5">>, <<"5", ".">> }

\* the units parse_bytes knows, up to MiB, in the spellings of docker stats
\* and in lower case
PbUnits ==
    { <<"B">>, <<"K", "B">>, <<"K", "i", "B">>, <<"M", "B">>, <<"M", "i", "B">>,
      <<"k", "b">>, <<"m", "i", "b">> }

\* the GB units, enumerated with the number 1
PbGigaUnits == { <<"G", "B">>, <<"G", "i", "B">>, <<"g", "b">> }

\* other suffixes
PbOtherUnits == { <<>>, <<"K">>, <<"T", "B">> }

\* blanks around and inside a size string
PbPads == { <<>>, <<" ">> }

\* the word of the unit test
PbInvalid == <<"i", "n", "v", "a", "l", "i", "d">>

\* the arguments parse_bytes is called with
ParseInputs ==
    { left \o number \o mid \o unit :
        left \in PbPads, mid \in PbPads, number \in PbNumbers,
        unit \in PbUnits \cup PbOtherUnits }
    \cup { left \o <<"1">> \o unit : left \in PbPads, unit \in PbGigaUnits }
    \cup { <<>>, <<" ">>, PbInvalid, <<"5", "K", "1">>, <<"-", "1", "B">>,
           <<"B">>, <<"K", "B">> }

\* parse_bytes about to be called with one of the arguments
InitParse ==
    /\ file = Unreadable
    /\ cpi = [c \in Callers |-> Pending]
    /\ call = [c \in Callers |-> IdleCall]
    /\ RenderIdle
    /\ NothingTaken
    /\ pb \in [s : ParseInputs, result : {Pending}]
    /\ dm = [pc |-> "idle"]
    /\ inst = [pc |-> "idle"]
    /\ gate = [pc |-> "idle"]
    /\ stream = [pc |-> "idle"]

\* parse_bytes(pb.s)
ParseCall ==
    /\ pb.result = Pending
    /\ pb' = [pb EXCEPT !.result = ParseBytes(pb.s)]
    /\ UNCHANGED <<cpiVars, dm, inst, gate, stream>>

NextParse == ParseCall

SpecParse == InitParse /\ [][NextParse]_vars

(* ------------------- docker.rs: DockerManager::initialize ------------- *)

\* the platforms initialize is compiled for
Platforms == {"linux", "macos", "windows"}

\* the installation command (Linux only)
InstallCommand == <<"sh", "-c", "curl -fsSL https://get.docker.com | sh">>

\* the command start_docker_service runs on each platform
StartCommand(os) ==
    CASE os = "linux"   -> <<"sh", "-c", "sudo systemctl start docker">>
      [] os = "macos"   -> <<"open", "-a", "Docker">>
      [] os = "windows" -> <<"cmd", "/C", "start", "", "\"Docker Desktop\"">>

\* what a failed command wrote to stderr
DmStderr ==
    { <<>>, <<"permission denied">>, <<"Failed to start docker.service">>,
      <<"sudo: a password is required">> }

\* the host before initialize is called: whether docker is on the PATH and
\* whether the daemon answers; issued collects the commands initialize runs
DmIdle(os, installed, running) ==
    [pc |-> "idle", os |-> os, installed |-> installed, running |-> running,
     alreadyRunning |-> FALSE, issued |-> <<>>, result |-> Pending]

\* the call ends with result r
DmFinish(d, r) == [d EXCEPT !.pc = "done", !.result = r]

\* DockerManager::new() on a host: which("docker"), then
\* connect_with_local_defaults() and client.version()
DmNew(installed, connects, running) ==
    IF ~installed THEN Err(<<"Docker not installed">>)
    ELSE IF ~connects THEN Err(<<"Docker error">>)
    ELSE IF ~running THEN Err(<<"Docker not running">>)
    ELSE Ok("DockerManager")

\* Self::start_docker_service()? up to the launch of the platform's command
DmStartService(d, launched) ==
    IF launched
    THEN [d EXCEPT !.pc = "start", !.issued = Append(@, StartCommand(d.os))]
    ELSE DmFinish([d EXCEPT !.issued = Append(@, StartCommand(d.os))],
                  Err(<<"IO error">>))

\* initialize(), up to the launch of its first command
DmInitialize(launched) ==
    /\ dm.pc = "idle"
    /\ LET d == [dm EXCEPT !.alreadyRunning = dm.installed /\ dm.running]
       IN  dm' =
             IF ~d.installed
             THEN CASE d.os = "linux" ->
                         IF launched
                         THEN [d EXCEPT !.pc = "install",
                                        !.issued = Append(@, InstallCommand)]
                         ELSE DmFinish([d EXCEPT !.issued = Append(@, InstallCommand)],
                                       Err(<<"IO error">>))
                    [] d.os = "macos" ->
                         DmFinish(d, Err(<<"Docker initialization failed: ",
                                           "Please install Docker Desktop for Mac manually">>))
                    [] d.os = "windows" ->
                         DmFinish(d, Err(<<"Docker initialization failed: ",
                                           "Please install Docker Desktop for Windows manually">>))
             ELSE DmStartService(d, launched)
    /\ UNCHANGED <<cpiVars, pb, inst, gate, stream>>

\* the installation script terminates; on success initialize goes on to
\* start the service
DmInstallExit(success, stderr, onPath, launched) ==
    /\ dm.pc = "install"
    /\ dm' = IF ~success
             THEN DmFinish(dm, Err(<<"Docker initialization failed: ",
                                     "Installation failed: ">> \o stderr))
             ELSE DmStartService([dm EXCEPT !.installed = onPath], launched)
    /\ UNCHANGED <<cpiVars, pb, inst, gate, stream>>

\* the service-start command terminates; on success initialize sleeps and
\* returns what DockerManager::new() gives
DmStartExit(success, stderr, up, connects) ==
    /\ dm.pc = "start"
    /\ dm' = IF ~success
             THEN DmFinish(dm, Err(<<"Docker initialization failed: ",
                                     "Service start failed: ">> \o stderr))
             ELSE LET d == [dm EXCEPT !.running = dm.running \/ up]
                  IN  DmFinish(d, DmNew(d.installed, connects, d.running))
    /\ UNCHANGED <<cpiVars, pb, inst, gate, stream>>

\* a host in any condition, initialize not yet called
InitDocker ==
    /\ file = Unreadable
    /\ cpi = [c \in Callers |-> Pending]
    /\ call = [c \in Callers |-> IdleCall]
    /\ RenderIdle
    /\ NothingTaken
    /\ pb = [s |-> <<>>, result |-> Pending]
    /\ dm \in {DmIdle(os, installed, running) :
                  os \in Platforms, installed \in BOOLEAN, running \in BOOLEAN}
    /\ inst = [pc |-> "idle"]
    /\ gate = [pc |-> "idle"]
    /\ stream = [pc |-> "idle"]

NextDocker ==
    \/ \E launched \in BOOLEAN : DmInitialize(launched)
    \/ \E success, onPath, launched \in BOOLEAN, stderr \in DmStderr :
          DmInstallExit(success, stderr, onPath, launched)
    \/ \E success, up, connects \in BOOLEAN, stderr \in DmStderr :
          DmStartExit(success, stderr, up, connects)

SpecDocker == InitDocker /\ [][NextDocker]_vars

(* ------------------ routes/instances.rs: the registry ----------------- *)

\* the container that exists before the agent starts; the daemon names the
\* containers it creates 1, 2, ...
External == 0
ContainerIds == 0..MaxCreated

\* AppManager::new() beside a daemon: instances is the registry map,
\* containers the containers the daemon has, viaApi the containers created
\* by create_container calls of the routes and not removed by their
\* remove_container calls; request, id and log describe the last request:
\* the Docker API calls it made, in order, each with its outcome
InstIdle ==
    [pc |-> "idle", instances |-> {}, containers |-> {External}, viaApi |-> {},
     next |-> 1, request |-> "none", id |-> External, log |-> <<>>,
     result |-> Pending]

\* a Docker API call and its outcome
ApiCall(op, id, ok) == [op |-> op, id |-> id, ok |-> ok]

\* a request begins: what the last one left is forgotten
InstBegin(s, request, id) ==
    [s EXCEPT !.request = request, !.id = id, !.log = <<>>, !.result = Pending]

\* create_instance on state s: create_container, then start_container, then
\* the insertion into instances
InstCreate(s, createOk, startOk) ==
    LET id == s.next
    IN  IF ~createOk
        THEN [s EXCEPT !.log = Append(@, ApiCall("create", id, FALSE)),
                       !.result = Err(<<"Failed to create instance">>)]
        ELSE LET c == [s EXCEPT !.log = Append(@, ApiCall("create", id, TRUE)),
                                !.containers = @ \cup {id},
                                !.viaApi = @ \cup {id},
                                !.next = @ + 1]
             IN  IF ~startOk
                 THEN [c EXCEPT !.log = Append(@, ApiCall("start", id, FALSE)),
                                !.result = Err(<<"Failed to start instance">>)]
                 ELSE [c EXCEPT !.log = Append(@, ApiCall("start", id, TRUE)),
                                !.instances = @ \cup {id},
                                !.result = Ok(id)]

\* stop_instance(id) on state s: stop_container, then get_instance
InstStop(s, id, stopOk, inspectOk) ==
    IF ~stopOk
    THEN [s EXCEPT !.log = Append(@, ApiCall("stop", id, FALSE)),
                   !.result = Err(<<"Failed to stop instance">>)]
    ELSE LET t == [s EXCEPT !.log = Append(@, ApiCall("stop", id, TRUE))]
         IN  IF ~inspectOk
             THEN [t EXCEPT !.log = Append(@, ApiCall("inspect", id, FALSE)),
                            !.result = Err(<<"Failed to get instance after stopping">>)]
             ELSE [t EXCEPT !.log = Append(@, ApiCall("inspect", id, TRUE)),
                            !.result = Ok(id)]

\* the daemon removes a container
InstRemoved(s, id) ==
    [s EXCEPT !.log = Append(@, ApiCall("remove", id, TRUE)),
              !.containers = @ \ {id},
              !.viaApi = @ \ {id}]

\* the daemon can only stop, inspect or remove a container it has
Feasible(s, id, ok) == ok => id \in s.containers

\* POST /instances
CreateInstance(createOk, startOk) ==
    /\ inst.pc = "idle"
    /\ inst.next <= MaxCreated
    /\ inst' = InstCreate(InstBegin(inst, "create", inst.next), createOk, startOk)
    /\ UNCHANGED <<cpiVars, pb, dm, gate, stream>>

\* DELETE /instances/<id>
DeleteInstance(id, removeOk) ==
    /\ inst.pc = "idle"
    /\ Feasible(inst, id, removeOk)
    /\ LET s == InstBegin(inst, "delete", id)
       IN  inst' =
             IF removeOk
             THEN [InstRemoved(s, id) EXCEPT !.instances = @ \ {id},
                                             !.result = Ok(id)]
             ELSE [s EXCEPT !.log = Append(@, ApiCall("remove", id, FALSE)),
                            !.result = Err(<<"Failed to delete instance">>)]
    /\ UNCHANGED <<cpiVars, pb, dm, gate, stream>>

\* mutant: the outcome of stopping is not looked at
UpdateInstanceIgnoresStop(id, stopOk, inspectOk, removeOk, createOk, startOk) ==
    /\ inst.pc = "idle"
    /\ inst.next <= MaxCreated
    /\ Feasible(inst, id, stopOk)
    /\ Feasible(inst, id, inspectOk)
    /\ Feasible(inst, id, removeOk)
    /\ LET s == InstStop(InstBegin(inst, "update", id), id, stopOk, inspectOk)
       IN  inst' =
             IF ~removeOk
             THEN [s EXCEPT !.log = Append(@, ApiCall("remove", id, FALSE)),
                            !.result = Err(<<"Failed to remove instance for update">>)]
             ELSE InstCreate(InstRemoved(s, id), createOk, startOk)
    /\ UNCHANGED <<cpiVars, pb, dm, gate, stream>>

\* PATCH /instances/<id>: stop_instance, remove_container, create_instance
UpdateInstance(id, stopOk, inspectOk, removeOk, createOk, startOk) ==
    /\ inst.pc = "idle"
    /\ inst.next <= MaxCreated
    /\ Feasible(inst, id, stopOk)
    /\ Feasible(inst, id, inspectOk)
    /\ Feasible(inst, id, removeOk)
    /\ LET s == InstStop(InstBegin(inst, "update", id), id, stopOk, inspectOk)
       IN  inst' =
             IF s.result.kind = "Err"
             THEN [s EXCEPT !.result =
                      Err(<<"Failed to stop instance for update: ">> \o s.result.msg)]
             ELSE IF ~removeOk
             THEN [s EXCEPT !.log = Append(@, ApiCall("remove", id, FALSE)),
                            !.result = Err(<<"Failed to remove instance for update">>)]
             ELSE InstCreate(InstRemoved(s, id), createOk, startOk)
    /\ UNCHANGED <<cpiVars, pb, dm, gate, stream>>

\* the agent beside a daemon that has one container, no request made yet
InitInst ==
    /\ file = Unreadable
    /\ cpi = [c \in Callers |-> Pending]
    /\ call = [c \in Callers |-> IdleCall]
    /\ RenderIdle
    /\ NothingTaken
    /\ pb = [s |-> <<>>, result |-> Pending]
    /\ dm = [pc |-> "idle"]
    /\ inst = InstIdle
    /\ gate = [pc |-> "idle"]
    /\ stream = [pc |-> "idle"]

NextInst ==
    \/ \E createOk, startOk \in BOOLEAN : CreateInstance(createOk, startOk)
    \/ \E id \in ContainerIds, removeOk \in BOOLEAN : DeleteInstance(id, removeOk)
    \/ \E id \in ContainerIds, stopOk, inspectOk, removeOk, createOk, startOk \in BOOLEAN :
          UpdateInstance(id, stopOk, inspectOk, removeOk, createOk, startOk)

SpecInst == InitInst /\ [][NextInst]_vars

(* ------------------ main.rs: the Docker-availability gate -------------- *)

\* the routes that test DOCKER_AVAILABLE first
GatedHandlers ==
    { "list_containers", "deploy_container", "start_container",
      "stop_container", "remove_container", "get_container_status",
      "create_network", "list_networks", "remove_network" }

\* the routes rocket() mounts
Handlers == GatedHandlers \cup {"stream_system_metrics"}

\* the requests served at the same time
Slots == {1, 2}

\* a slot no request has been served in
NoRequest == [handler |-> "none", pc |-> "idle", status |-> "none", spawned |-> 0]

\* the process before rocket() runs: DOCKER_AVAILABLE is the
\* AtomicBool::new(false) of lazy_static, stores counts the calls of store
GateIdle ==
    [pc |-> "boot", available |-> FALSE, stores |-> 0,
     req |-> [slot \in Slots |-> NoRequest]]

\* rocket(): check_docker_availability() is stored, the configuration is
\* loaded (a failure panics), the routes are mounted
GateLaunch(dockerInfoOk, configOk) ==
    /\ gate.pc = "boot"
    /\ gate' = [gate EXCEPT !.available = dockerInfoOk,
                            !.stores = @ + 1,
                            !.pc = IF configOk THEN "serving" ELSE "panicked"]
    /\ UNCHANGED <<cpiVars, pb, dm, inst, stream>>

\* mutant: list_networks does not test the flag
HandlerBeginUngated(slot, handler, spawnOk) ==
    /\ gate.pc = "serving"
    /\ gate.req[slot].pc \in {"idle", "done"}
    /\ LET r == [NoRequest EXCEPT !.handler = handler]
       IN  gate' = [gate EXCEPT !.req[slot] =
                IF handler = "stream_system_metrics"
                THEN [r EXCEPT !.pc = "done", !.status = "Ok"]
                ELSE IF ~gate.available /\ handler # "list_networks"
                THEN [r EXCEPT !.pc = "done", !.status = "ServiceUnavailable"]
                ELSE IF ~spawnOk
                THEN [r EXCEPT !.pc = "done", !.status = "InternalServerError"]
                ELSE [r EXCEPT !.pc = "docker", !.spawned = 1]]
    /\ UNCHANGED <<cpiVars, pb, dm, inst, stream>>

\* a request reaches a handler, which runs up to the launch of its docker
\* command: the gated handlers return ServiceUnavailable when the flag is
\* false, InternalServerError when docker cannot be launched
HandlerBegin(slot, handler, spawnOk) ==
    /\ gate.pc = "serving"
    /\ gate.req[slot].pc \in {"idle", "done"}
    /\ LET r == [NoRequest EXCEPT !.handler = handler]
       IN  gate' = [gate EXCEPT !.req[slot] =
                IF handler = "stream_system_metrics"
                THEN [r EXCEPT !.pc = "done", !.status = "Ok"]
                ELSE IF ~gate.available
                THEN [r EXCEPT !.pc = "done", !.status = "ServiceUnavailable"]
                ELSE IF ~spawnOk
                THEN [r EXCEPT !.pc = "done", !.status = "InternalServerError"]
                ELSE [r EXCEPT !.pc = "docker", !.spawned = 1]]
    /\ UNCHANGED <<cpiVars, pb, dm, inst, stream>>

\* the docker command of a request terminates and the handler responds;
\* only list_containers turns a non-zero exit into a status
HandlerExit(slot, success) ==
    /\ gate.req[slot].pc = "docker"
    /\ gate' = [gate EXCEPT !.req[slot].pc = "done",
                            !.req[slot].status =
                                IF ~success /\ gate.req[slot].handler = "list_containers"
                                THEN "InternalServerError" ELSE "Ok"]
    /\ UNCHANGED <<cpiVars, pb, dm, inst, stream>>

\* the agent process from its start
InitGate ==
    /\ file = Unreadable
    /\ cpi = [c \in Callers |-> Pending]
    /\ call = [c \in Callers |-> IdleCall]
    /\ RenderIdle
    /\ NothingTaken
    /\ pb = [s |-> <<>>, result |-> Pending]
    /\ dm = [pc |-> "idle"]
    /\ inst = [pc |-> "idle"]
    /\ gate = GateIdle
    /\ stream = [pc |-> "idle"]

NextGate ==
    \/ \E dockerInfoOk, configOk \in BOOLEAN : GateLaunch(dockerInfoOk, configOk)
    \/ \E slot \in Slots, handler \in Handlers, spawnOk \in BOOLEAN :
          HandlerBegin(slot, handler, spawnOk)
    \/ \E slot \in Slots, success \in BOOLEAN : HandlerExit(slot, success)

SpecGate == InitGate /\ [][NextGate]_vars

(* ------------------- metrics.rs: the metrics stream ------------------- *)

\* In this section too a string is the sequence of its characters.

RECURSIVE SplitOn(_, _, _, _)
\* str::split(sep) from position j on, cur being the piece read so far
SplitOn(s, sep, j, cur) ==
    IF j > Len(s) THEN <<cur>>
    ELSE IF s[j] = sep THEN <<cur>> \o SplitOn(s, sep, j + 1, <<>>)
    ELSE SplitOn(s, sep, j + 1, Append(cur, s[j]))

\* str::lines: the pieces between newlines, without an empty piece after a
\* final newline
Lines(s) ==
    LET pieces == SplitOn(s, "\n", 1, <<>>)
    IN  IF pieces[Len(pieces)] = <<>> THEN SubSeq(pieces, 1, Len(pieces) - 1)
        ELSE pieces

\* what Command::output() gave: whether the process could be launched, and
\* its stdout
ProcessOutput(launched, stdout) == [launched |-> launched, stdout |-> stdout]

\* collect_container_metrics on the output of docker stats: the metrics, an
\* error, or a panic where a field without a slash is indexed at 1
CollectContainerMetrics(output) ==
    IF ~output.launched THEN Err(<<"IO error">>)
    ELSE IF FromUtf8(output.stdout, <<"Parse error">>).kind = "Err"
         THEN FromUtf8(output.stdout, <<"Parse error">>)
    ELSE
    LET parts == SplitOn(TrimMatches(output.stdout, Whitespace \cup {"\t", "\n"}),
                         "\t", 1, <<>>)
    IN  IF Len(parts) < 5 THEN Err(<<"Parse error: Invalid stats format">>)
        ELSE
    LET mem_parts == SplitOn(parts[4], "/", 1, <<>>)
        memory_usage == ParseBytes(mem_parts[1])
    IN  IF memory_usage.kind = "Err" THEN memory_usage
        ELSE IF Len(mem_parts) < 2 THEN Panic
        ELSE
    LET memory_limit == ParseBytes(mem_parts[2])
        net_parts == SplitOn(parts[5], "/", 1, <<>>)
        network_rx_bytes == ParseBytes(net_parts[1])
    IN  IF memory_limit.kind = "Err" THEN memory_limit
        ELSE IF network_rx_bytes.kind = "Err" THEN network_rx_bytes
        ELSE IF Len(net_parts) < 2 THEN Panic
        ELSE
    LET network_tx_bytes == ParseBytes(net_parts[2])
        cpu_usage == ParseF64(TrimEnd(parts[3], {"%"}))
    IN  IF network_tx_bytes.kind = "Err" THEN network_tx_bytes
        ELSE IF cpu_usage.kind = "Err" THEN cpu_usage
        ELSE Ok([container_id |-> parts[1], name |-> parts[2],
                 cpu_usage |-> cpu_usage.value,
                 memory_usage |-> memory_usage.value,
                 memory_limit |-> memory_limit.value,
                 network_rx_bytes |-> network_rx_bytes.value,
                 network_tx_bytes |-> network_tx_bytes.value])

\* stdout of docker ps -q: nothing, one id, two ids in either order, with or
\* without a final newline, or bytes that are not UTF-8; the process may
\* also fail to launch
PsOutputs ==
    { ProcessOutput(FALSE, <<>>),
      ProcessOutput(TRUE, <<InvalidByte>>),
      ProcessOutput(TRUE, <<>>),
      ProcessOutput(TRUE, <<"a", "\n">>),
      ProcessOutput(TRUE, <<"b">>),
      ProcessOutput(TRUE, <<"a", "\n", "b", "\n">>),
      ProcessOutput(TRUE, <<"b", "\n", "a">>) }

\* a line of docker stats for container id with the given CPU, memory and
\* network fields
StatsLine(id, cpu, mem, net) ==
    id \o <<"\t", "n", "\t">> \o cpu \o <<"\t">> \o mem \o <<"\t">> \o net
        \o <<"\n">>

\* what docker stats may give for container id: blank sizes, sizes as Docker
\* prints them, a CPU field that is no number, a line of two fields, a
\* memory field without a slash, bytes that are not UTF-8, or no launch
StatsOutputs(id) ==
    { ProcessOutput(TRUE, StatsLine(id, <<"1", "%">>, <<" ", "/", " ">>,
                                    <<" ", "/", " ">>)),
      ProcessOutput(TRUE, StatsLine(id, <<"1", "%">>, <<"1", "B", "/", "1", "B">>,
                                    <<"1", "B", "/", "1", "B">>)),
      ProcessOutput(TRUE, StatsLine(id, <<"x">>, <<" ", "/", " ">>,
                                    <<" ", "/", " ">>)),
      ProcessOutput(TRUE, id \o <<"\t", "n", "\n">>),
      ProcessOutput(TRUE, StatsLine(id, <<"1", "%">>, <<>>, <<"/">>)),
      ProcessOutput(TRUE, <<InvalidByte>>),
      ProcessOutput(FALSE, <<>>) }

\* the stream before its first tick; collected, sent and logged are the
\* containers of the current tick whose metrics were collected, whose
\* message was sent, and whose error was printed
StreamIdle ==
    [pc |-> "tick", ticks |-> 0, containers |-> <<>>, at |-> 0,
     collected |-> <<>>, sent |-> <<>>, logged |-> <<>>,
     cause |-> "none", result |-> Pending]

\* start_metrics_stream returns or unwinds
StreamEnd(s, cause, result) ==
    [s EXCEPT !.pc = "done", !.cause = cause, !.result = result]

\* the for loop moves to the next listed container, or the loop to the next
\* tick
StreamAdvance(s) ==
    [s EXCEPT !.at = @ + 1,
              !.pc = IF s.at + 1 = Len(s.containers) THEN "tick" ELSE "collect"]

\* interval.tick() fires and docker ps -q lists the containers
StreamTick(output) ==
    /\ stream.pc = "tick"
    /\ stream.ticks < MaxTicks
    /\ LET s == [stream EXCEPT !.ticks = @ + 1, !.containers = <<>>, !.at = 0,
                               !.collected = <<>>, !.sent = <<>>,
                               !.logged = <<>>]
           text == FromUtf8(output.stdout, <<"Parse error">>)
       IN  stream' =
             IF ~output.launched THEN StreamEnd(s, "list", Err(<<"IO error">>))
             ELSE IF text.kind = "Err" THEN StreamEnd(s, "list", text)
             ELSE [s EXCEPT !.containers = Lines(text.value),
                            !.pc = IF Lines(text.value) = <<>> THEN "tick"
                                   ELSE "collect"]
    /\ UNCHANGED <<cpiVars, pb, dm, inst, gate>>

\* mutant: an error collecting one container's metrics ends the stream
StreamCollectPropagates(output, serialized, delivered) ==
    /\ stream.pc = "collect"
    /\ output \in StatsOutputs(stream.containers[stream.at + 1])
    /\ LET id == stream.containers[stream.at + 1]
           metrics == CollectContainerMetrics(output)
       IN  stream' =
             CASE metrics.kind = "Panic" -> StreamEnd(stream, "collect", Panic)
               [] metrics.kind = "Err" -> StreamEnd(stream, "collect", metrics)
               [] OTHER ->
                    LET s == [stream EXCEPT !.collected = Append(@, id)]
                    IN  IF ~serialized
                        THEN StreamEnd(s, "serialize", Err(<<"Serialization error">>))
                        ELSE IF ~delivered
                        THEN StreamEnd(s, "send", Err(<<"WebSocket error">>))
                        ELSE StreamAdvance([s EXCEPT !.sent = Append(@, id)])
    /\ UNCHANGED <<cpiVars, pb, dm, inst, gate>>

\* one turn of the for loop: docker stats for the next listed container,
\* then its message serialized and sent, or its error printed
StreamCollect(output, serialized, delivered) ==
    /\ stream.pc = "collect"
    /\ output \in StatsOutputs(stream.containers[stream.at + 1])
    /\ LET id == stream.containers[stream.at + 1]
           metrics == CollectContainerMetrics(output)
       IN  stream' =
             CASE metrics.kind = "Panic" -> StreamEnd(stream, "collect", Panic)
               [] metrics.kind = "Err" ->
                    StreamAdvance([stream EXCEPT !.logged = Append(@, id)])
               [] OTHER ->
                    LET s == [stream EXCEPT !.collected = Append(@, id)]
                    IN  IF ~serialized
                        THEN StreamEnd(s, "serialize", Err(<<"Serialization error">>))
                        ELSE IF ~delivered
                        THEN StreamEnd(s, "send", Err(<<"WebSocket error">>))
                        ELSE StreamAdvance([s EXCEPT !.sent = Append(@, id)])
    /\ UNCHANGED <<cpiVars, pb, dm, inst, gate>>

InitStream ==
    /\ file = Unreadable
    /\ cpi = [c \in Callers |-> Pending]
    /\ call = [c \in Callers |-> IdleCall]
    /\ RenderIdle
    /\ NothingTaken
    /\ pb = [s |-> <<>>, result |-> Pending]
    /\ dm = [pc |-> "idle"]
    /\ inst = [pc |-> "idle"]
    /\ gate = [pc |-> "idle"]
    /\ stream = StreamIdle

NextStream ==
    \/ \E output \in PsOutputs : StreamTick(output)
    \/ \E id \in {<<"a">>, <<"b">>} : \E output \in StatsOutputs(id) :
         \E serialized, delivered \in BOOLEAN :
            StreamCollect(output, serialized, delivered)

SpecStream == InitStream /\ [][NextStream]_vars

(* ------------------------------- claims ------------------------------- *)

\* the configuration caller c's call runs against (its instance's)
ConfigOf(c) == cpi[c].value.config
\* caller c's call has resolved its action: something was handed to the launcher
Resolved(c) == call[c].spawned # <<>>
\* the templates of the resolved action: the main one, then the post_exec ones
ChainTemplates(c) ==
    <<Resolve(ConfigOf(c), call[c].command).value.command_template>>
    \o call[c].post_exec_templates
\* the command lines handed to the launcher so far
SpawnedLines(c) == [j \in 1..Len(call[c].spawned) |-> call[c].spawned[j].line]
\* the main command's process has terminated with a non-zero status
MainFailed(c) == call[c].exited >= 1 /\ call[c].main.exit # 0
\* post-exec step i's process has terminated with a non-zero status
PostFailed(c, i) ==
    /\ call[c].exited = i + 2
    /\ call[c].last.exit # 0
\* bytes that are valid UTF-8
ValidUtf8(bytes) == \A j \in 1..Len(bytes) : bytes[j] # InvalidByte

\* C1 (as stated): whenever the main command exits non-zero, no post-exec
\* command is rendered or launched and execute returns a failure whose
\* message is the main command's stderr verbatim
C1_FailFastVerbatim ==
    \A c \in Callers :
        MainFailed(c) =>
            /\ call[c].pc = "done"
            /\ Len(call[c].spawned) = 1
            /\ call[c].result = Err(call[c].main.stderr)

\* C1 (amended): whenever the main command exits non-zero, no post-exec
\* command is rendered or launched and execute returns a failure: its
\* message is the main command's stderr verbatim when stderr is valid UTF-8,
\* and the decode failure "failed to parse stderr as UTF-8" otherwise
C1_FailFast ==
    \A c \in Callers :
        MainFailed(c) =>
            /\ call[c].pc = "done"
            /\ Len(call[c].spawned) = 1
            /\ call[c].exited = 1
            /\ call[c].result =
                 IF ValidUtf8(call[c].main.stderr)
                 THEN Err(call[c].main.stderr)
                 ELSE Err(<<"failed to parse stderr as UTF-8">>)

\* C1 witness: a main command with a post-exec chain behind it has exited
\* non-zero with a stderr text, and the call has returned that text
C1_Witness ==
    \E c \in Callers :
        /\ MainFailed(c)
        /\ call[c].post_exec_templates # <<>>
        /\ call[c].result = Err(<<"No such container: web">>)

\* the command lines of the whole chain: every template rendered against
\* the call's parameter map
RenderedChain(c) ==
    [j \in 1..Len(ChainTemplates(c)) |->
        ReplaceTemplateParams(call[c].params, ChainTemplates(c)[j])]

\* what the call has launched is a prefix of its chain, one process at most
\* is running, and a step that exited non-zero or failed to launch is the last
C2_Prefix(c) ==
    Resolved(c) =>
        /\ Len(call[c].spawned) <= Len(ChainTemplates(c))
        /\ SpawnedLines(c) = SubSeq(RenderedChain(c), 1, Len(call[c].spawned))
        /\ call[c].pc \in {"main", "post"} => call[c].exited = Len(call[c].spawned) - 1
        /\ call[c].pc = "done" =>
              call[c].exited \in {Len(call[c].spawned) - 1, Len(call[c].spawned)}
        /\ (call[c].exited >= 1 /\ call[c].last.exit # 0) => call[c].pc = "done"
        /\ call[c].result = SpawnError => call[c].pc = "done"

\* a step of the call that launches a further process is the step in which
\* the process launched before it terminates with status zero, and it
\* launches exactly the next command of the chain
C2_Step(c) ==
    (call[c].pc # "idle" /\ call'[c].spawned # call[c].spawned /\ call'[c].pc # "idle") =>
        /\ call[c].pc \in {"main", "post"}
        /\ call'[c].exited = call[c].exited + 1
        /\ call'[c].exited = Len(call[c].spawned)
        /\ call'[c].last.exit = 0
        /\ Len(call'[c].spawned) = Len(call[c].spawned) + 1
        /\ SubSeq(call'[c].spawned, 1, Len(call[c].spawned)) = call[c].spawned

\* C2: within one execute call the processes are launched one after the
\* other, each only once the one before has terminated, in the order main,
\* post_exec[0], post_exec[1], ...; what is launched is always a prefix of
\* that list and nothing follows a step that exits non-zero or fails to launch
C2_ChainOrder ==
    /\ [](\A c \in Callers : C2_Prefix(c))
    /\ [][\A c \in Callers : C2_Step(c)]_vars

\* C2 witness: of a chain of at least three post-exec steps the second one
\* failed; main, the first and the second step were launched, the third was not
C2_Witness ==
    \E c \in Callers :
        /\ Len(call[c].post_exec_templates) >= 3
        /\ PostFailed(c, 1)
        /\ call[c].pc = "done"
        /\ SpawnedLines(c) = SubSeq(RenderedChain(c), 1, 3)

\* the failure execute returns when the main command exits non-zero with output
MainFailure(output) == StderrFailure(output.stderr, <<"failed to parse stderr as UTF-8">>)

\* C3: the failure returned when post-exec step i exits non-zero is
\* distinguishable from every main-command failure (it is PostExecFailure(i,
\* stderr), which names the step)
C3_PostExecFailureDistinct ==
    \A c \in Callers : \A i \in 0..(MaxPostExec + 1) :
        (PostFailed(c, i) /\ call[c].pc = "done") =>
            \A output \in Outputs :
                output.exit # 0 => call[c].result # MainFailure(output)

\* C4: when the actions object has no entry for the command's tag, execute
\* returns a failure that names the tag and launches nothing
C4_UnknownTag ==
    \A c \in Callers :
        (/\ call[c].pc # "idle"
         /\ ValueGet(ConfigOf(c), "actions").t = "Object"
         /\ ValueGet(ValueGet(ConfigOf(c), "actions"),
                     ToStringTag(call[c].command)).t = "None") =>
            /\ call[c].pc = "done"
            /\ call[c].spawned = <<>>
            /\ call[c].exited = 0
            /\ call[c].result.kind = "Err"
            /\ \E j \in 1..Len(call[c].result.msg) :
                   call[c].result.msg[j] = ToStringTag(call[c].command)

\* C4 witness: stop_container was executed against a configuration whose
\* actions object has other entries only
C4_Witness ==
    \E c \in Callers :
        /\ call[c].pc = "done"
        /\ call[c].command = StopContainer(<<"web">>)
        /\ ConfigOf(c) = DocDocker
        /\ call[c].result = Err(<<"Command type not found for '", "stop_container", "'">>)

\* every process of the chain was launched and terminated with status zero
AllExitedZero(c) ==
    /\ Resolved(c)
    /\ call[c].exited = 1 + Len(call[c].post_exec_templates)
    /\ call[c].main.exit = 0
    /\ call[c].last.exit = 0

\* C5 (as stated): when the main command and every post-exec command exit
\* zero, the success payload is exactly the main command's raw stdout text
C5_RawPayload ==
    \A c \in Callers :
        (AllExitedZero(c) /\ ValidUtf8(call[c].main.stdout)) =>
            call[c].result = Ok(JString(call[c].main.stdout))

\* C5 (amended): when the main command and every post-exec command exit zero
\* and the main command's stdout is valid UTF-8, execute returns the JSON
\* object {"result": s} whose s is exactly the main command's stdout text
C5_Payload ==
    \A c \in Callers :
        (AllExitedZero(c) /\ ValidUtf8(call[c].main.stdout)) =>
            /\ call[c].pc = "done"
            /\ call[c].result = Ok(JObject(<<<<"result", JString(call[c].main.stdout)>>>>))

\* C5 witness: a chain with post-exec steps has succeeded and the main
\* command's stdout held a quote and a backslash
C5_Witness ==
    \E c \in Callers :
        /\ AllExitedZero(c)
        /\ call[c].post_exec_templates # <<>>
        /\ call[c].main.stdout = <<"\"", "\\">>
        /\ call[c].result.kind = "Ok"

\* the post-exec steps have run and the two calls saw different output
\* from the last of them
DifferentPostOutput(c1, c2) ==
    /\ call[c1].post_exec_templates # <<>>
    /\ call[c1].last # call[c2].last

\* C6: two execute runs with the same configuration, the same command and
\* the same main-command output, in which every post-exec step exits zero,
\* return the same result, whatever the post-exec steps wrote
C6_PostOutputDiscarded ==
    \A c1 \in Callers : \A c2 \in Callers :
        (/\ AllExitedZero(c1) /\ AllExitedZero(c2)
         /\ ConfigOf(c1) = ConfigOf(c2)
         /\ call[c1].command = call[c2].command
         /\ call[c1].main = call[c2].main) =>
            call[c1].result = call[c2].result

\* C6 witness: two such runs have returned a success payload after their
\* post-exec steps wrote different output
C6_Witness ==
    /\ AllExitedZero(1) /\ AllExitedZero(2)
    /\ ConfigOf(1) = ConfigOf(2)
    /\ call[1].command = call[2].command
    /\ call[1].main = call[2].main
    /\ DifferentPostOutput(1, 2)
    /\ call[1].result.kind = "Ok"

\* caller c enters execute in this step
EntersExecute(c) == call[c].pc = "idle" /\ call'[c].pc # "idle"

\* C7 (as stated): every execute call resolves its action from the content
\* the file has when the call is made
C7_RereadsFile ==
    [][\A c \in Callers :
          EntersExecute(c) =>
              /\ file.t = "Object"
              /\ \E launched \in BOOLEAN :
                     call'[c] = StartOfCall(file, call'[c].command, launched)]_vars

\* C7 (amended): every execute call re-parses the configuration text its
\* CpiCommand instance holds and resolves its action from it; that text is
\* what CpiCommand::new read from the file, an instance never changes it,
\* and an edit of the file changes no instance
C7_InstanceConfig ==
    [][\A c \in Callers :
          /\ EntersExecute(c) =>
                /\ cpi'[c] = cpi[c]
                /\ \E launched \in BOOLEAN :
                       call'[c] = StartOfCall(ConfigOf(c), call'[c].command, launched)
          /\ cpi'[c] # cpi[c] => (call[c].pc = "idle" /\ cpi'[c] = LoadConfig(file))
          /\ file' # file => cpi'[c] = cpi[c]]_vars

\* C7 witness: a call runs the main command of its instance's configuration
\* while the file on disk holds a configuration with another template for
\* the same command
C7_Witness ==
    \E c \in Callers :
        /\ Resolved(c)
        /\ file.t = "Object"
        /\ file # ConfigOf(c)
        /\ Resolve(file, call[c].command).kind = "Ok"
        /\ call[c].spawned[1].line #
             ReplaceTemplateParams(call[c].params,
                                   Resolve(file, call[c].command).value.command_template)

\* C8: every command line launched by a call, the main one and each
\* post-exec one, is its template rendered against the parameter map
\* extracted from the command, and that map does not change during the call
C8_SameParams ==
    /\ [](\A c \in Callers :
             Resolved(c) =>
                 /\ call[c].params = ExtractParams(call[c].command).value
                 /\ \A j \in 1..Len(call[c].spawned) :
                        call[c].spawned[j].line =
                            ReplaceTemplateParams(ExtractParams(call[c].command).value,
                                                  ChainTemplates(c)[j]))
    /\ [][\A c \in Callers :
             (call[c].pc \in {"main", "post"} /\ call'[c].pc # "idle") =>
                 call'[c].params = call[c].params]_vars

\* C8 witness: the second post-exec step of a call with a non-empty
\* parameter map was launched with its placeholder filled in
C8_Witness ==
    \E c \in Callers :
        /\ Len(call[c].spawned) >= 3
        /\ call[c].params # <<>>
        /\ call[c].spawned[3].line # ChainTemplates(c)[3]
        /\ call[c].spawned[3].line = <<"step", " ", "2", " ", "web">>

RECURSIVE SimultaneousFrom(_, _, _)
\* simultaneous substitution from position i on: every occurrence in the
\* original template of the placeholder of a key of params is replaced by
\* that key's replacement text, and nothing else is touched
SimultaneousFrom(template, params, i) ==
    IF i > Len(template) THEN <<>>
    ELSE IF \E key \in MapKeys(params) : MatchAt(template, Placeholder(key), i)
         THEN LET key == CHOOSE k \in MapKeys(params) : MatchAt(template, Placeholder(k), i)
              IN  Replacement(MapGet(params, key))
                  \o SimultaneousFrom(template, params, i + Len(Placeholder(key)))
         ELSE <<template[i]>> \o SimultaneousFrom(template, params, i + 1)

\* C9: replace_template_params returns the simultaneous substitution of the
\* original template, whatever the order of the map's keys and also when a
\* value holds text of the form {otherkey}
C9_Simultaneous ==
    rDone => rOutput = SimultaneousFrom(rTemplate, rParams, 1)

\* the names a placeholder may carry
PlaceholderNames == {"name", "image", "x"}

\* C10: every {x} of the template whose x is no key of the map stands
\* unchanged in the output, between the renderings of what precedes and of
\* what follows it, and a template rendered against the empty map is
\* returned unchanged
C10_Unmatched ==
    rDone =>
        /\ rParams = <<>> => rOutput = rTemplate
        /\ \A x \in PlaceholderNames \ MapKeys(rParams) :
             \A i \in 1..Len(rTemplate) :
                MatchAt(rTemplate, Placeholder(x), i) =>
                    rOutput =
                        ReplaceLoop(rParams, SubSeq(rTemplate, 1, i - 1), 1)
                        \o Placeholder(x)
                        \o ReplaceLoop(rParams,
                                       SubSeq(rTemplate, i + 3, Len(rTemplate)), 1)

\* C10 witness: a template with an unmatched {x} next to a matched {name}
\* was rendered: {name} was replaced and {x} is still there
C10_Witness ==
    /\ rDone
    /\ rTemplate = <<"{", "x", "}", "{", "name", "}">>
    /\ rParams = <<<<"name", JString(<<"web">>)>>>>
    /\ rOutput = <<"{", "x", "}", "web">>

\* a JSON text without its first and its last character
WithoutOuterPair(text) == SubSeq(text, 2, Len(text) - 1)

\* C11: the replacement text of an array or object value is its compact
\* JSON serialization with only the single outermost pair of brackets or
\* braces removed; inner brackets and braces stay
C11_OutermostOnly ==
    (/\ rDone
     /\ rTemplate = Placeholder("name")
     /\ Len(rParams) = 1
     /\ rParams[1][1] = "name"
     /\ rParams[1][2].t \in {"Array", "Object"}) =>
        rOutput = WithoutOuterPair(ToJson(rParams[1][2]))

\* the entries of a map, as a set
MapEntries(m) == {<<m[j][1], m[j][2]>> : j \in 1..Len(m)}

\* C12: the parameter map execute renders with has exactly the named fields
\* of the command's variant as keys, each with the field's value, and
\* ListContainers gives the empty map without an error
C12_ParamsAreFields ==
    \A c \in Callers :
        /\ Resolved(c) =>
              /\ Len(call[c].params) = Len(call[c].command.fields)
              /\ MapEntries(call[c].params) = MapEntries(call[c].command.fields)
        /\ (call[c].pc # "idle" /\ call[c].command = ListContainers) =>
              /\ ExtractParams(call[c].command) = Ok(<<>>)
              /\ call[c].params = <<>>
              /\ call[c].result # Err(<<"failed to extract params from command">>)

\* C12 witness: a CreateContainer call runs with its four fields as
\* parameters, the array and the object among them
C12_Witness ==
    \E c \in Callers :
        /\ Resolved(c)
        /\ call[c].command.variant = "CreateContainer"
        /\ MapKeys(call[c].params) = {"image", "name", "ports", "env"}
        /\ MapGet(call[c].params, "ports") = JArray(<<JString(<<"80:80">>)>>)

\* the key a serialized command carries: the string of a unit variant, the
\* single key of the object of a struct variant
SerializedKey(value) ==
    IF value.t = "String" THEN value.s[1] ELSE value.m[1][1]

\* commands of every variant, two of them with other field values
TagCommands ==
    Commands \cup { StartContainer(<<"db">>),
                    CreateContainer(<<"redis">>, <<"db">>, <<>>, <<>>) }

\* the seven tags
Tags ==
    { "create_container", "delete_container", "start_container",
      "stop_container", "restart_container", "inspect_container",
      "list_containers" }

\* C13: the tag of a command depends only on its variant, the seven variants
\* have seven distinct tags, and the tag is the key the command is
\* serialized under
C13_TagsUniqueStable ==
    /\ \A a, b \in TagCommands :
          (a.variant = b.variant) <=> (ToStringTag(a) = ToStringTag(b))
    /\ {ToStringTag(a) : a \in TagCommands} = Tags
    /\ Cardinality({a.variant : a \in TagCommands}) = 7
    /\ Cardinality(Tags) = 7
    /\ \A c \in Callers :
          call[c].pc # "idle" =>
              ToStringTag(call[c].command) =
                  SerializedKey(ToValue(call[c].command))

\* C13 witness: a call with a struct variant found its action under the
\* tag, which is the key of its serialized form
C13_Witness ==
    \E c \in Callers :
        /\ Resolved(c)
        /\ call[c].command.variant = "RestartContainer"
        /\ SerializedKey(ToValue(call[c].command)) = "restart_container"

\* the configuration has an object under the top-level key actions
HasActionsObject(config) == ValueGet(config, "actions").t = "Object"

\* the file cannot be read as JSON
NotJson(content) == content.t \in {"Unreadable", "Malformed"}

\* C14: a file that is not well-formed JSON gives no instance, and without an
\* instance no call is made; a call on a configuration without a top-level
\* actions object ends with an error and has spawned nothing
C14_ConfigErrors ==
    /\ [](\A c \in Callers :
            /\ cpi[c].kind = "Err" => call[c] = IdleCall
            /\ (/\ call[c].pc # "idle"
                /\ cpi[c].kind = "Ok"
                /\ ~HasActionsObject(ConfigOf(c))) =>
                    /\ call[c].pc = "done"
                    /\ call[c].spawned = <<>>
                    /\ call[c].result.kind = "Err")
    /\ [][\A c \in Callers :
            (NotJson(file) /\ cpi'[c] # cpi[c]) => cpi'[c].kind = "Err"]_vars

\* C14 witness: a call on a configuration with no actions key, or on one
\* whose actions is an array, has ended
C14_Witness ==
    \E c \in Callers :
        /\ call[c].pc = "done"
        /\ cpi[c].kind = "Ok"
        /\ ConfigOf(c) \in {DocNoActions, DocActionsNotObject}
        /\ call[c].result.kind = "Err"
        /\ call[c].spawned = <<>>

\* the last command line of call c was handed to the launcher, no process
\* came of it, and the call is over
LaunchFailed(c) ==
    /\ call[c].pc = "done"
    /\ call[c].exited < Len(call[c].spawned)

\* C15: a command is launched only when every command launched before it in
\* the call has run and terminated, so nothing follows a failed launch; the
\* call with a failed launch returns the launcher's error, not a success
C15_SpawnFailureAborts ==
    \A c \in Callers :
        /\ Len(call[c].spawned) <= call[c].exited + 1
        /\ LaunchFailed(c) =>
              /\ call[c].result = SpawnError
              /\ call[c].result.kind # "Ok"
              /\ Len(call[c].spawned) = call[c].exited + 1

\* C15 witness: the first post-exec step of a chain of several could not be
\* launched
C15_Witness ==
    \E c \in Callers :
        /\ LaunchFailed(c)
        /\ Len(call[c].post_exec_templates) >= 2
        /\ Len(call[c].spawned) = 2
        /\ call[c].result = SpawnError

\* in this step a process of call c terminates with a non-zero status
StepFails(c) ==
    /\ call[c].pc \in {"main", "post"}
    /\ call'[c].exited = call[c].exited + 1
    /\ call'[c].last.exit # 0

\* C16: a call over an action with n post-exec templates launches at most
\* 1 + n processes, the j-th of them from the j-th template of the chain and
\* from no other; the step in which a process exits non-zero launches nothing
\* and ends the call, and a call that is over launches nothing more
C16_NoRetries ==
    /\ [](\A c \in Callers :
            Resolved(c) =>
                /\ Len(call[c].spawned) <= 1 + Len(call[c].post_exec_templates)
                /\ \A j \in 1..Len(call[c].spawned) :
                      call[c].spawned[j].line = RenderedChain(c)[j])
    /\ [][\A c \in Callers :
            /\ StepFails(c) =>
                  /\ call'[c].spawned = call[c].spawned
                  /\ call'[c].pc = "done"
            /\ call[c].pc = "done" =>
                  Len(call'[c].spawned) <= Len(call[c].spawned)]_vars

\* C16 witness: the first post-exec step of a chain of several exited
\* non-zero; the main command and that step are all that was launched
C16_Witness ==
    \E c \in Callers :
        /\ PostFailed(c, 0)
        /\ call[c].pc = "done"
        /\ Len(call[c].post_exec_templates) >= 2
        /\ Len(call[c].spawned) = 2

\* the three decode errors of execute
DecodeErrors ==
    { Err(<<"failed to parse stdout as UTF-8">>),
      Err(<<"failed to parse stderr as UTF-8">>),
      Err(<<"failed to parse post-exec stderr as UTF-8">>) }

\* call c is over and every process it launched has terminated
RanToEnd(c) ==
    /\ call[c].pc = "done"
    /\ call[c].exited >= 1
    /\ call[c].exited = Len(call[c].spawned)

\* the process of call c that terminated last is a post-exec step
LastIsPostExec(c) == call[c].exited >= 2

\* C17 (as stated): a call in which the main command's or a post-exec
\* step's stdout or stderr is not valid UTF-8 ends with a decode error
C17_AlwaysDecoded ==
    \A c \in Callers :
        (/\ RanToEnd(c)
         /\ \/ ~ValidUtf8(call[c].main.stdout)
            \/ ~ValidUtf8(call[c].main.stderr)
            \/ ~ValidUtf8(call[c].last.stdout)
            \/ ~ValidUtf8(call[c].last.stderr)) =>
                call[c].result \in DecodeErrors

\* C17 (amended): execute decodes the main command's stdout when it exited
\* zero and the stderr of a step that exited non-zero, and fails with the
\* decode error of that stream when it is not valid UTF-8; the stderr of a
\* step that exited zero and the stdout of a post-exec step or of a failed
\* main command are not decoded and never make the call fail
C17_Decoding ==
    \A c \in Callers :
        RanToEnd(c) =>
            /\ (call[c].main.exit = 0 /\ ~ValidUtf8(call[c].main.stdout)) =>
                  /\ call[c].result = Err(<<"failed to parse stdout as UTF-8">>)
                  /\ call[c].exited = 1
            /\ (call[c].main.exit # 0 /\ ~ValidUtf8(call[c].main.stderr)) =>
                  call[c].result = Err(<<"failed to parse stderr as UTF-8">>)
            /\ (LastIsPostExec(c) /\ call[c].last.exit # 0
                                  /\ ~ValidUtf8(call[c].last.stderr)) =>
                  call[c].result = Err(<<"failed to parse post-exec stderr as UTF-8">>)
            /\ call[c].result \in DecodeErrors =>
                  \/ call[c].main.exit = 0 /\ ~ValidUtf8(call[c].main.stdout)
                  \/ call[c].last.exit # 0 /\ ~ValidUtf8(call[c].last.stderr)
            /\ (/\ call[c].last.exit = 0
                /\ ValidUtf8(call[c].main.stdout)) =>
                  call[c].result = Ok(SuccessValue(call[c].main.stdout))

\* C17 witness: the main command exited zero with a stdout that is not
\* valid UTF-8 and the call returned the stdout decode error; nothing was
\* launched after it
C17_Witness ==
    \E c \in Callers :
        /\ RanToEnd(c)
        /\ call[c].main.exit = 0
        /\ ~ValidUtf8(call[c].main.stdout)
        /\ call[c].post_exec_templates # <<>>
        /\ call[c].result = Err(<<"failed to parse stdout as UTF-8">>)

\* the programs that are a host shell: the POSIX shell, the Windows
\* command interpreter
HostShells == { <<"sh">>, <<"cmd">> }

\* C18: every rendered command line is handed to a host shell as one
\* string: the program launched is the shell and the whole line, unchanged,
\* is one of its arguments
C18_OpaqueLine ==
    \A c \in Callers :
        \A j \in 1..Len(call[c].spawned) :
            /\ call[c].spawned[j].executable \in HostShells
            /\ \E a \in 1..Len(call[c].spawned[j].args) :
                  call[c].spawned[j].args[a] = call[c].spawned[j].line

\* C19: a call that is over has given its caller a success payload or an
\* error value, whatever the configuration: it has not panicked
C19_BinaryResult ==
    \A c \in Callers :
        call[c].pc = "done" => call[c].result.kind \in {"Ok", "Err"}

\* what caller c holds: its instance and its call
Own(c) == <<cpi[c], call[c]>>

\* two calls were given the same configuration, command and process outcomes
SameRun(c, d) ==
    /\ call[c].pc = "done" /\ call[d].pc = "done"
    /\ cpi[c] = cpi[d]
    /\ call[c].command = call[d].command
    /\ call[c].exited = call[d].exited
    /\ Len(call[c].spawned) = Len(call[d].spawned)
    /\ call[c].main = call[d].main
    /\ call[c].last = call[d].last

\* caller c, holding an instance and not inside a call, can enter execute
\* now, whatever the other callers are doing
CanProceed(c) ==
    (call[c].pc = "idle" /\ cpi[c].kind = "Ok") => CanExecute(c)

SameAsLast(c) ==
    /\ call[c].pc = "done"
    /\ taken[c].pc = "done"
    /\ call[c].command = taken[c].command
    /\ call[c].exited = taken[c].exited
    /\ Len(call[c].spawned) = Len(taken[c].spawned)
    /\ call[c].main = taken[c].main
    /\ call[c].last = taken[c].last

\* C21: no step of an execute call changes the instance's stored
\* configuration or the file, whether the call succeeds or fails, and a call
\* given the same command and process outcomes as the call before it on the
\* same instance returns the same result after launching the same commands
C21_Stateless ==
    /\ [][/\ file' = file
          /\ \A c \in Callers :
                (call[c].pc # "idle" \/ call'[c].pc # "idle") => cpi'[c] = cpi[c]]_vars
    /\ [](\A c \in Callers :
            SameAsLast(c) =>
                /\ call[c].result = taken[c].result
                /\ call[c].spawned = taken[c].spawned)

\* C21 witness: a call with a post-exec chain has succeeded twice in a row
\* on one instance
C21_Witness ==
    \E c \in Callers :
        /\ SameAsLast(c)
        /\ call[c].post_exec_templates # <<>>
        /\ call[c].result.kind = "Ok"
        /\ call[c].result = taken[c].result

\* caller c is inside execute, blocked in Command::output()
Running(c) == call[c].pc \in {"main", "post"}

\* C22: when every process a call launches terminates, the call returns;
\* a call blocked on a process changes in no way but by that process
\* terminating, so while the process runs the call neither returns nor
\* launches a later step
C22_Termination ==
    /\ \A c \in Callers : Running(c) ~> call[c].pc = "done"
    /\ [][\A c \in Callers :
            (Running(c) /\ call'[c] # call[c]) =>
                /\ call'[c].exited = call[c].exited + 1
                /\ call'[c].last.exit # -1]_vars

\* C22 witness: a call has returned after its main command and its whole
\* post-exec chain terminated
C22_Witness ==
    \E c \in Callers :
        /\ call[c].pc = "done"
        /\ Len(call[c].post_exec_templates) >= 2
        /\ call[c].exited = 1 + Len(call[c].post_exec_templates)

\* the spellings of the units parse_bytes is to accept
PbValidUnits == PbUnits \cup PbGigaUnits

\* C23: a decimal number immediately followed by a unit B, KB/KiB, MB/MiB,
\* GB/GiB in either case gives number x multiplier truncated to an integer,
\* and the word "invalid" gives an error
C23_ParseBytes ==
    pb.result # Pending =>
        /\ \A number \in PbNumbers, unit \in PbValidUnits :
              pb.s = number \o unit =>
                  pb.result = Ok(AsU64(ParseF64(number).value,
                                       Multiplier(ToUppercase(unit))))
        /\ pb.s = PbInvalid => pb.result.kind = "Err"

\* the service-start commands among the commands initialize has run
StartsIssued == SelectSeq(dm.issued, LAMBDA cmd : cmd = StartCommand(dm.os))

\* C24: when Docker is installed and already reachable as initialize is
\* called, initialize runs no service-start command and returns a connected
\* manager whenever the connection can be made
C24_StartOnlyIfNotRunning ==
    (dm.pc # "idle" /\ dm.alreadyRunning) =>
        /\ StartsIssued = <<>>
        /\ dm.pc = "done" =>
              dm.result \in {Ok("DockerManager"), Err(<<"Docker error">>)}

\* the operations of the Docker API calls of the last request, in order
LogOps == [j \in 1..Len(inst.log) |-> inst.log[j].op]

\* the steps of an update, in order
UpdateSteps == <<"stop", "inspect", "remove", "create", "start">>

\* C25: the Docker API calls of an update are stop, (the look at the stopped
\* container,) remove, create, start in this order, each made only when every
\* call before it succeeded: after a failed stop step the container is
\* neither removed nor replaced, after a failed removal nothing is created
C25_UpdateOrder ==
    inst.request = "update" =>
        /\ Len(inst.log) >= 1
        /\ LogOps = SubSeq(UpdateSteps, 1, Len(inst.log))
        /\ \A j \in 1..(Len(inst.log) - 1) : inst.log[j].ok
        /\ \A j \in 1..Len(inst.log) :
              inst.log[j].op \in {"stop", "inspect", "remove"} => inst.log[j].id = inst.id
        /\ inst.result.kind = "Ok" <=>
              (Len(inst.log) = Len(UpdateSteps) /\ inst.log[Len(inst.log)].ok)

\* C25 witness: an update whose removal failed after a successful stop: the
\* container is still there and nothing was created
C25_Witness ==
    /\ inst.request = "update"
    /\ LogOps = <<"stop", "inspect", "remove">>
    /\ ~inst.log[3].ok
    /\ inst.id \in inst.containers
    /\ inst.result.kind = "Err"

\* C28: after any sequence of create, delete and update requests, the ids in
\* the instances map are exactly the containers created through the routes
\* and not since removed through them; an id removed by an update is not in
\* the map
C28_RegistryConsistent ==
    /\ inst.instances = inst.viaApi
    /\ (inst.request = "update" /\ inst.id \notin inst.containers) =>
          inst.id \notin inst.instances

\* the action entry caller c's call looks up
ActionOf(c) ==
    ValueGet(ValueGet(ConfigOf(c), "actions"), ToStringTag(call[c].command))

\* the post_exec value of an entry is there and is not an array of strings
BadPostExec(entry) ==
    LET post_exec == ValueGet(entry, "post_exec")
    IN  /\ post_exec.t # "None"
        /\ \/ post_exec.t # "Array"
           \/ \E j \in 1..Len(post_exec.a) : post_exec.a[j].t # "String"

\* C26: a call on an action with a command template whose post_exec is
\* present and is not an array, or has an element that is not a string,
\* returns the error of that defect and launches nothing, not even the
\* main command
C26_PostExecValidatedFirst ==
    \A c \in Callers :
        (/\ call[c].pc # "idle"
         /\ cpi[c].kind = "Ok"
         /\ ValueGet(ActionOf(c), "command").t = "String"
         /\ BadPostExec(ActionOf(c))) =>
            /\ call[c].pc = "done"
            /\ call[c].spawned = <<>>
            /\ call[c].exited = 0
            /\ call[c].result =
                 IF ValueGet(ActionOf(c), "post_exec").t # "Array"
                 THEN Err(<<"Post exec commands found but were not an array">>)
                 ELSE Err(<<"post exec command was not a valid string">>)

\* C26 witness: a call on an action whose post_exec begins with a string
\* and has a number behind it has ended without launching anything
C26_Witness ==
    \E c \in Callers :
        /\ call[c].pc = "done"
        /\ cpi[c].kind = "Ok"
        /\ ConfigOf(c) = DocBadEntries
        /\ call[c].command.variant = "StopContainer"
        /\ call[c].spawned = <<>>
        /\ call[c].result = Err(<<"post exec command was not a valid string">>)

\* C27: when the main command exits zero with a stdout that is not valid
\* UTF-8, execute returns the stdout decode error and has launched nothing
\* but the main command
C27_StdoutDecodedFirst ==
    \A c \in Callers :
        (/\ call[c].exited >= 1
         /\ call[c].main.exit = 0
         /\ ~ValidUtf8(call[c].main.stdout)) =>
            /\ call[c].pc = "done"
            /\ Len(call[c].spawned) = 1
            /\ call[c].result = Err(<<"failed to parse stdout as UTF-8">>)

\* C27 witness: the main command of an action with several post-exec steps
\* exited zero with an undecodable stdout, and the main command is all that
\* was launched
C27_Witness ==
    \E c \in Callers :
        /\ call[c].main.exit = 0
        /\ ~ValidUtf8(call[c].main.stdout)
        /\ Len(call[c].post_exec_templates) >= 2
        /\ Len(call[c].spawned) = 1
        /\ call[c].pc = "done"

\* C29: DOCKER_AVAILABLE is stored once, by rocket() before the routes are
\* mounted, and keeps its value from then on; while it is false every
\* request to a container or network handler has ended with
\* ServiceUnavailable and no docker process, whatever other requests are
\* being served
C29_Gate ==
    /\ [](gate.stores <= 1)
    /\ [](gate.pc = "boot" => (gate.stores = 0 /\ ~gate.available))
    /\ [](gate.pc # "boot" => gate.stores = 1)
    /\ [][gate'.available # gate.available =>
            (gate.pc = "boot" /\ gate'.stores = 1)]_vars
    /\ [][gate.pc # "boot" => gate'.stores = gate.stores]_vars
    /\ [](\A slot \in Slots :
            (~gate.available /\ gate.req[slot].handler \in GatedHandlers) =>
                /\ gate.req[slot].pc = "done"
                /\ gate.req[slot].status = "ServiceUnavailable"
                /\ gate.req[slot].spawned = 0)

\* C29 witness: with the flag false, requests to two different handlers
\* served at once were both refused
C29_Witness ==
    /\ gate.pc = "serving"
    /\ ~gate.available
    /\ gate.req[1].handler = "deploy_container"
    /\ gate.req[2].handler = "list_networks"
    /\ \A slot \in Slots : gate.req[slot].status = "ServiceUnavailable"

\* C30 (as stated): in start_metrics_stream an error collecting one
\* container's metrics is only printed, and the loop goes on to the next
\* container or the next tick; the stream ends only when listing the
\* containers, serializing a message or sending it fails; and the messages
\* sent in a tick are those of the containers collected in it, once each, in
\* the order listed
C30_StreamIsolation ==
    /\ [](stream.pc = "done" => stream.cause \in {"list", "serialize", "send"})
    /\ [](stream.pc \in {"tick", "collect"} => stream.sent = stream.collected)
    /\ [][(stream.pc = "collect" /\ stream'.collected = stream.collected
                /\ stream' # stream) =>
            /\ stream'.pc # "done"
            /\ stream'.at = stream.at + 1
            /\ stream'.logged = Append(stream.logged,
                                        stream.containers[stream.at + 1])]_vars


====
